---- MODULE Spec2Model ----
(***************************************************************************)
(* Actualimporter: the Express backend (groupRows, mapRows, parseAmount,   *)
(* POST /api/import, /api/actual/accounts, /api/actual/budgets) and the    *)
(* parts of the React front end that decide what is sent to it.            *)
(*                                                                         *)
(* Text is a sequence of one-character strings, so that trimming, the      *)
(* replace steps of parseAmount and the key order of a JavaScript object   *)
(* are computed, not assumed.  A JavaScript value that may be undefined or *)
(* null is a record tagged by its type in field t.                         *)
(***************************************************************************)
EXTENDS Integers, Sequences, FiniteSets, TLC

VARIABLES
    env,        \* process.env: MOCK_ACTUAL, ACTUAL_SERVER_URL and, where a specification sets them, the other ACTUAL_ variables
    body,       \* body[r]: req.body of request r
    pc,         \* pc[r]: "received", "awaiting" (at the await of fetch), "responded", "unanswered"
    entries,    \* entries[r]: Object.entries(grouped), the groups in the order the loop visits them
    idx,        \* idx[r]: position of the loop in entries[r]
    result,     \* result[r]: the handler's local array `result`
    response,   \* response[r]: what res.status(..).json(..) sent, or NoResponse
    calls,      \* every POST issued to the Actual server, in issue order
    fin,        \* input of the pure function under check (function-level specifications)
    fout,       \* its output
    ui,         \* the React state of App and the position of its async callbacks
    route       \* route[r]: the endpoint request r was posted to

vars == <<env, body, pc, entries, idx, result, response, calls, fin, fout, ui, route>>

-----------------------------------------------------------------------------
(* Bounds *)

MaxRows == 3

\* longest amount text drawn exhaustively from AmountChars
MaxAmountLen == 4

-----------------------------------------------------------------------------
(* JavaScript values *)

Undefined == [t |-> "undefined"]
Null == [t |-> "null"]
Str(s) == [t |-> "string", s |-> s]

\* obj[key] of a plain data object whose own keys are DOMAIN obj
Get(obj, key) == IF key \in DOMAIN obj THEN obj[key] ELSE Undefined

\* JavaScript truthiness of undefined, null, a string or a boolean
Truthy(v) ==
    CASE v.t = "string" -> v.s # <<>>
      [] v.t = "boolean" -> v.b
      [] OTHER -> FALSE

WhiteSpace == {" ", "\t"}
Digits == {"0", "1", "2", "3", "4", "5", "6", "7", "8", "9"}

DigitVal(c) ==
    CASE c = "0" -> 0 [] c = "1" -> 1 [] c = "2" -> 2 [] c = "3" -> 3
      [] c = "4" -> 4 [] c = "5" -> 5 [] c = "6" -> 6 [] c = "7" -> 7
      [] c = "8" -> 8 [] c = "9" -> 9

RECURSIVE TrimStart(_)
TrimStart(s) ==
    IF s # <<>> /\ Head(s) \in WhiteSpace THEN TrimStart(Tail(s)) ELSE s

RECURSIVE TrimEnd(_)
TrimEnd(s) ==
    IF s # <<>> /\ s[Len(s)] \in WhiteSpace
    THEN TrimEnd(SubSeq(s, 1, Len(s) - 1))
    ELSE s

\* String.prototype.trim
Trim(s) == TrimEnd(TrimStart(s))

\* Array.prototype.join
RECURSIVE Join(_, _)
Join(parts, sep) ==
    IF parts = <<>> THEN <<>>
    ELSE IF Len(parts) = 1 THEN parts[1]
    ELSE parts[1] \o sep \o Join(Tail(parts), sep)

-----------------------------------------------------------------------------
(* normalizeCellValue, parseAmount *)

normalizeCellValue(value) ==
    IF value.t \in {"undefined", "null"} THEN <<>> ELSE Trim(value.s)

\* text.replace(',', '.'): a string pattern replaces the first occurrence only
RECURSIVE ReplaceFirstComma(_)
ReplaceFirstComma(s) ==
    IF s = <<>> THEN <<>>
    ELSE IF Head(s) = "," THEN <<".">> \o Tail(s)
    ELSE <<Head(s)>> \o ReplaceFirstComma(Tail(s))

\* mutant of NotDot: the dots are kept
KeepsDots(c) == TRUE

NotDot(c) == c # "."
IsNumberChar(c) == c \in Digits \cup {".", "-"}

\* text.replace(/\./g, '').replace(',', '.').replace(/[^\d.-]/g, '')
NormalizeAmountText(text) ==
    SelectSeq(ReplaceFirstComma(SelectSeq(text, NotDot)), IsNumberChar)

RECURSIVE DigitsValue(_)
DigitsValue(s) ==
    IF s = <<>> THEN 0 ELSE 10 * DigitsValue(SubSeq(s, 1, Len(s) - 1)) + DigitVal(s[Len(s)])

RECURSIVE IndexOfDot(_)
IndexOfDot(s) ==
    IF s = <<>> THEN 1 ELSE IF Head(s) = "." THEN 1 ELSE 1 + IndexOfDot(Tail(s))

RECURSIVE StripTrailingZeros(_)
StripTrailingZeros(s) ==
    IF s # <<>> /\ s[Len(s)] = "0"
    THEN StripTrailingZeros(SubSeq(s, 1, Len(s) - 1))
    ELSE s

NaN == [t |-> "number", nan |-> TRUE]

\* a finite number: (-1)^neg * mant / 10^scale, with no trailing zero in the fraction
Num(neg, mant, scale) ==
    [t |-> "number", nan |-> FALSE, neg |-> (neg /\ mant # 0), mant |-> mant, scale |-> scale]

\* Number(s) for a string s over digits, '.' and '-': StringToNumber of
\* ECMA-262; the empty string is 0, anything outside
\* [-](digits[.digits] | .digits) is NaN
ToNumber(s) ==
    IF s = <<>> THEN Num(FALSE, 0, 0)
    ELSE
        LET neg == Head(s) = "-"
            u == IF neg THEN Tail(s) ELSE s
            dot == IndexOfDot(u)
            ip == SubSeq(u, 1, dot - 1)
            fp == StripTrailingZeros(SubSeq(u, dot + 1, Len(u)))
        IN  IF \/ \E i \in 1..Len(u) : u[i] = "-"
               \/ Cardinality({i \in 1..Len(u) : u[i] = "."}) > 1
               \/ ~ \E i \in 1..Len(u) : u[i] \in Digits
            THEN NaN
            ELSE Num(neg, DigitsValue(ip \o fp), Len(fp))

parseAmount(rawValue) ==
    LET text == normalizeCellValue(rawValue)
    IN  IF text = <<>> THEN Null
        ELSE LET number == ToNumber(NormalizeAmountText(text))
             IN  IF number.nan THEN Null ELSE number

-----------------------------------------------------------------------------
(* mapRows *)

NonEmpty(s) == s # <<>>

\* (rule.columns || []).map((column) => normalizeCellValue(row[column]))
MergeValues(row, rule) ==
    LET columns == IF "columns" \in DOMAIN rule THEN rule.columns ELSE <<>>
    IN  [i \in 1..Len(columns) |-> normalizeCellValue(Get(row, columns[i]))]

\* mutant of Separator: `||` in place of `??`, an empty separator becomes a space
SeparatorOrSpace(rule) ==
    LET sep == Get(rule, "separator")
    IN  IF Truthy(sep) THEN sep.s ELSE <<" ">>

\* rule.separator ?? ' '
Separator(rule) ==
    LET sep == Get(rule, "separator")
    IN  IF sep.t \in {"undefined", "null"} THEN <<" ">> ELSE sep.s

\* String(undefined), the property name that row[undefined] reads
UndefinedName == <<"u", "n", "d", "e", "f", "i", "n", "e", "d">>

\* the value mapRows stores in mappedRow[targetField] for one rule; a rule
\* without a column reads row[undefined], the property named "undefined"
RuleValue(row, rule) ==
    IF rule = Null THEN <<>>
    ELSE IF "type" \in DOMAIN rule /\ rule.type = "merge"
    THEN Join(SelectSeq(MergeValues(row, rule), NonEmpty), Separator(rule))
    ELSE normalizeCellValue(
            Get(row, IF "column" \in DOMAIN rule THEN rule.column ELSE UndefinedName))

\* one iteration of the outer loop of mapRows: the keys of mappedRow are the
\* keys of Object.entries(mapping); the handler has answered 400 for a falsy
\* mapping, so `mapping || {}` is mapping
mapRow(row, mapping) ==
    [targetField \in DOMAIN mapping |-> Str(RuleValue(row, mapping[targetField]))]

mapRows(rows, mapping) ==
    [i \in 1..Len(rows) |-> mapRow(rows[i], mapping)]

-----------------------------------------------------------------------------
(* groupRows and the enumeration order of its result *)

AllKey == <<"a", "l", "l">>
EmptyKey == <<"(", "l", "e", "e", "g", ")">>

\* property names every plain object inherits from Object.prototype: acc[name]
\* is truthy for them although acc has no such own property
ProtoKeys ==
    { <<"c", "o", "n", "s", "t", "r", "u", "c", "t", "o", "r">>,
      <<"t", "o", "S", "t", "r", "i", "n", "g">>,
      <<"v", "a", "l", "u", "e", "O", "f">>,
      <<"_", "_", "p", "r", "o", "t", "o", "_", "_">> }

\* normalizeCellValue(row[groupByColumn]) || '(leeg)'
GroupKeyOf(row, groupByColumn) ==
    LET key == normalizeCellValue(Get(row, groupByColumn))
    IN  IF key # <<>> THEN key ELSE EmptyKey

\* The reducer of groupRows.  acc is the object under construction: keys, its
\* own property names in insertion order, and of, the array under each name.
\* A row is held by its position in `rows` (the arrays hold references to the
\* row objects).  A key that names an inherited property makes
\* `acc[groupKey].push` a call of undefined: the reducer throws.
RECURSIVE GroupReduce(_, _, _, _)
GroupReduce(rows, groupByColumn, i, acc) ==
    IF acc.threw \/ i > Len(rows) THEN acc
    ELSE
        LET groupKey == GroupKeyOf(rows[i], groupByColumn)
            own == \E j \in 1..Len(acc.keys) : acc.keys[j] = groupKey
        IN  IF ~own /\ groupKey \in ProtoKeys
            THEN [acc EXCEPT !.threw = TRUE]
            ELSE GroupReduce(rows, groupByColumn, i + 1,
                    [threw |-> FALSE,
                     keys |-> IF own THEN acc.keys ELSE Append(acc.keys, groupKey),
                     of |-> IF own
                            THEN [acc.of EXCEPT ![groupKey] = Append(@, i)]
                            ELSE [k \in DOMAIN acc.of \cup {groupKey} |->
                                    IF k = groupKey THEN <<i>> ELSE acc.of[k]]])

EmptyObject == [threw |-> FALSE, keys |-> <<>>, of |-> [k \in {} |-> <<>>]]

\* mutant of groupRows: only an undefined column means no grouping
groupRowsUnlessUndefined(rows, groupByColumn) ==
    IF groupByColumn = Undefined
    THEN [threw |-> FALSE, keys |-> <<AllKey>>,
          of |-> [k \in {AllKey} |-> [i \in 1..Len(rows) |-> i]]]
    ELSE GroupReduce(rows, groupByColumn.s, 1, EmptyObject)

groupRows(rows, groupByColumn) ==
    IF ~Truthy(groupByColumn)
    THEN [threw |-> FALSE, keys |-> <<AllKey>>,
          of |-> [k \in {AllKey} |-> [i \in 1..Len(rows) |-> i]]]
    ELSE GroupReduce(rows, groupByColumn.s, 1, EmptyObject)

\* an integer index in the sense of OrdinaryOwnPropertyKeys: a canonical
\* numeric string (no leading zero)
IsArrayIndex(key) ==
    /\ key # <<>>
    /\ \A i \in 1..Len(key) : key[i] \in Digits
    /\ (Len(key) = 1 \/ key[1] # "0")

RECURSIVE SortByValue(_)
SortByValue(keySet) ==
    IF keySet = {} THEN <<>>
    ELSE LET least == CHOOSE k \in keySet :
                        \A other \in keySet : DigitsValue(k) <= DigitsValue(other)
         IN  <<least>> \o SortByValue(keySet \ {least})

NotArrayIndex(key) == ~IsArrayIndex(key)

\* Object.entries(grouped): integer-index keys first, in ascending numeric
\* order, then the other keys in insertion order
ObjectEntries(obj) ==
    LET order == SortByValue({obj.keys[i] : i \in {j \in 1..Len(obj.keys) : IsArrayIndex(obj.keys[j])}})
                 \o SelectSeq(obj.keys, NotArrayIndex)
    IN  [i \in 1..Len(order) |-> [key |-> order[i], rows |-> obj.of[order[i]]]]

-----------------------------------------------------------------------------
(* POST /api/import *)

NoResponse == [status |-> 0]

\* a || b
Or(a, b) == IF Truthy(a) THEN a ELSE b

\* mutant of DryRunOf: a request without dryRun is a live import
DryRunOfLiveByDefault(b) == IF "dryRun" \in DOMAIN b THEN b.dryRun ELSE [t |-> "boolean", b |-> FALSE]

\* const { ..., dryRun = true, ... } = req.body
DryRunOf(b) == IF "dryRun" \in DOMAIN b THEN b.dryRun ELSE [t |-> "boolean", b |-> TRUE]

\* (actualConfig?.serverUrl || process.env.ACTUAL_SERVER_URL || '').trim()
ServerUrlOf(b, e) ==
    LET chosen == Or(Or(Get(Get(b, "actualConfig"), "serverUrl"), e.ACTUAL_SERVER_URL), Str(<<>>))
    IN  Trim(chosen.s)

\* actualConfig?.password || process.env.ACTUAL_PASSWORD || ''
PasswordOf(b, e) ==
    Or(Or(Get(Get(b, "actualConfig"), "password"), Get(e, "ACTUAL_PASSWORD")), Str(<<>>)).s

\* actualConfig?.budgetId || process.env.ACTUAL_BUDGET_ID || ''
BudgetIdOf(b, e) ==
    Or(Or(Get(Get(b, "actualConfig"), "budgetId"), Get(e, "ACTUAL_BUDGET_ID")), Str(<<>>)).s

\* serverUrl.replace(/\/$/, '')
StripSlash(s) == IF s # <<>> /\ s[Len(s)] = "/" THEN SubSeq(s, 1, Len(s) - 1) ELSE s

ImportPath ==
    <<"/", "a", "p", "i", "/", "i", "m", "p", "o", "r", "t", "-",
      "t", "r", "a", "n", "s", "a", "c", "t", "i", "o", "n", "s">>

\* mutant of AccountIdOf: a group without an account falls back on the
\* account of 'all'
AccountIdOfOrAll(b, group) ==
    Or(Or(Get(b.accountMapping, group), Get(b.accountMapping, AllKey)), Null)

\* accountMapping?.[group] || null (a request without accountMapping is held
\* as one with the empty object: both read undefined for every group)
AccountIdOf(b, group) == Or(Get(b.accountMapping, group), Null)

\* mappedRows.map((row) => ({ date, payee, notes, amount: parseAmount(row.amount) }))
Normalize(mappedRow) ==
    [date |-> Get(mappedRow, "date"),
     payee |-> Get(mappedRow, "payee"),
     notes |-> Get(mappedRow, "notes"),
     amount |-> parseAmount(Get(mappedRow, "amount"))]

NormalizedOf(b, rowIds) ==
    [i \in 1..Len(rowIds) |-> Normalize(mapRow(b.rows[rowIds[i]], b.mapping))]

\* mutant of IsInvalid: an empty payee makes a transaction invalid too
IsInvalidOrNoPayee(row) == row.amount = Null \/ ~Truthy(row.date) \/ ~Truthy(row.payee)

\* row.amount === null || !row.date
IsInvalid(row) == row.amount = Null \/ ~Truthy(row.date)

\* mutant of IsImportable: the date is not looked at
IsImportableAmountOnly(row) == row.amount # Null

\* row.amount !== null && row.date
IsImportable(row) == row.amount # Null /\ Truthy(row.date)

PreviewSize == 5

\* mutant of GroupResult: the preview shows the transactions that will be sent
GroupResultPreviewOfValid(group, accountId, normalized) ==
    LET valid == SelectSeq(normalized, IsImportable)
    IN  [group |-> group,
         accountId |-> accountId,
         transactionCount |-> Len(normalized),
         invalidCount |-> Len(SelectSeq(normalized, IsInvalid)),
         preview |-> SubSeq(valid, 1, IF Len(valid) < PreviewSize THEN Len(valid) ELSE PreviewSize)]

\* the object pushed on `result`
GroupResult(group, accountId, normalized) ==
    [group |-> group,
     accountId |-> accountId,
     transactionCount |-> Len(normalized),
     invalidCount |-> Len(SelectSeq(normalized, IsInvalid)),
     preview |-> SubSeq(normalized, 1, IF Len(normalized) < PreviewSize THEN Len(normalized) ELSE PreviewSize)]

\* mutant of LedgerSkipped: the dry-run flag is not consulted
LedgerSkippedMockOnly(dryRun, e) == e.MOCK_ACTUAL

\* if (dryRun || process.env.MOCK_ACTUAL === 'true') continue
LedgerSkipped(dryRun, e) == Truthy(dryRun) \/ e.MOCK_ACTUAL

RECURSIVE SumOf(_, _)
SumOf(items, field) ==
    IF items = <<>> THEN 0 ELSE Head(items)[field] + SumOf(Tail(items), field)

\* mutant of Summary: the total counts the valid transactions only
SummaryOfValid(dryRun, res) ==
    [status |-> 200,
     dryRun |-> dryRun,
     groups |-> res,
     totalTransactions |-> SumOf(res, "transactionCount") - SumOf(res, "invalidCount"),
     totalInvalid |-> SumOf(res, "invalidCount")]

\* the final res.json({...})
Summary(dryRun, res) ==
    [status |-> 200,
     dryRun |-> dryRun,
     groups |-> res,
     totalTransactions |-> SumOf(res, "transactionCount"),
     totalInvalid |-> SumOf(res, "invalidCount")]

MissingServerUrl == [status |-> 400, error |-> "ACTUAL_SERVER_URL ontbreekt voor import."]
MissingAccount(group) == [status |-> 400, error |-> "Geen account gekoppeld voor groep", group |-> group]
MissingInput == [status |-> 400, error |-> "rows en mapping zijn verplicht."]

\* mutant of ImportFailed: the groups built so far are reported with the error
ImportFailedWithPartialResult(group, detail, res) ==
    [status |-> 502, error |-> "Import naar Actual mislukt voor groep", group |-> group,
     details |-> detail, groups |-> res, totalTransactions |-> SumOf(res, "transactionCount")]

\* the 502 sent when the ledger answers with a non-OK status
ImportFailed(group, detail, res) ==
    [status |-> 502, error |-> "Import naar Actual mislukt voor groep", group |-> group, details |-> detail]

\* mutant of Precheck: the account check is missing
PrecheckUrlOnly(serverUrl, accountId, group) ==
    IF serverUrl = <<>> THEN MissingServerUrl ELSE NoResponse

\* mutant of Precheck: the server URL check is missing
PrecheckAccountOnly(serverUrl, accountId, group) ==
    IF ~Truthy(accountId) THEN MissingAccount(group) ELSE NoResponse

\* the two configuration checks before the fetch: the answer they send, or
\* NoResponse when both pass
Precheck(serverUrl, accountId, group) ==
    IF serverUrl = <<>> THEN MissingServerUrl
    ELSE IF ~Truthy(accountId) THEN MissingAccount(group)
    ELSE NoResponse

\* the POST of one group: fetch(`${serverUrl.replace(/\/$/, '')}/api/import-transactions`,
\* { body: { password, budgetId, accountId, transactions } })
LedgerCall(b, e, group, accountId, normalized) ==
    [group |-> group,
     serverUrl |-> ServerUrlOf(b, e),
     url |-> StripSlash(ServerUrlOf(b, e)) \o ImportPath,
     password |-> PasswordOf(b, e),
     budgetId |-> BudgetIdOf(b, e),
     accountId |-> accountId,
     transactions |-> SelectSeq(normalized, IsImportable)]

\* mutant of RunLoop: a group with nothing valid to send is passed over
RECURSIVE RunLoopSkippingEmpty(_, _, _, _, _)
RunLoopSkippingEmpty(b, e, ents, i, res) ==
    IF i > Len(ents)
    THEN [pc |-> "responded", idx |-> i, result |-> res,
          response |-> Summary(DryRunOf(b), res), call |-> <<>>]
    ELSE
        LET group == ents[i].key
            accountId == AccountIdOf(b, group)
            normalized == NormalizedOf(b, ents[i].rows)
            res2 == Append(res, GroupResult(group, accountId, normalized))
        IN  IF LedgerSkipped(DryRunOf(b), e) \/ SelectSeq(normalized, IsImportable) = <<>>
            THEN RunLoopSkippingEmpty(b, e, ents, i + 1, res2)
            ELSE IF Precheck(ServerUrlOf(b, e), accountId, group) # NoResponse
            THEN [pc |-> "responded", idx |-> i, result |-> res2,
                  response |-> Precheck(ServerUrlOf(b, e), accountId, group), call |-> <<>>]
            ELSE [pc |-> "awaiting", idx |-> i, result |-> res2,
                  response |-> NoResponse,
                  call |-> << LedgerCall(b, e, group, accountId, normalized) >>]

\* The body of the for loop from entry i on, up to the first point where the
\* handler either answers or suspends at `await fetch(...)`.
RECURSIVE RunLoop(_, _, _, _, _)
RunLoop(b, e, ents, i, res) ==
    IF i > Len(ents)
    THEN [pc |-> "responded", idx |-> i, result |-> res,
          response |-> Summary(DryRunOf(b), res), call |-> <<>>]
    ELSE
        LET group == ents[i].key
            accountId == AccountIdOf(b, group)
            normalized == NormalizedOf(b, ents[i].rows)
            res2 == Append(res, GroupResult(group, accountId, normalized))
        IN  IF LedgerSkipped(DryRunOf(b), e)
            THEN RunLoop(b, e, ents, i + 1, res2)
            ELSE IF Precheck(ServerUrlOf(b, e), accountId, group) # NoResponse
            THEN [pc |-> "responded", idx |-> i, result |-> res2,
                  response |-> Precheck(ServerUrlOf(b, e), accountId, group), call |-> <<>>]
            ELSE [pc |-> "awaiting", idx |-> i, result |-> res2,
                  response |-> NoResponse,
                  call |-> << LedgerCall(b, e, group, accountId, normalized) >>]

\* What becomes of a request whose async handler throws (groupRows throwing,
\* or the awaited fetch rejecting): nothing in the handler catches it.  Under
\* Express 4 (whose `app.get('*', ...)` the server uses) the rejected promise
\* of the handler is unhandled: no response is sent, and Node 22, the image of
\* the Dockerfile, ends the process on an unhandled rejection, so that every
\* request still in the process stays without an answer.  Under Express 5 the
\* default error handler answers 500 and the process lives.  The sources do
\* not pin the version, so both are outcomes.
InternalError == [status |-> 500, error |-> "Internal Server Error"]
UncaughtOutcomes == {NoResponse, InternalError}

PcAfter(resp) == IF resp = NoResponse THEN "unanswered" ELSE "responded"

\* the positions of all handlers after the handler of r threw with outcome out
PcAfterUncaught(r, out) ==
    IF out = NoResponse
    THEN [q \in DOMAIN pc |-> IF q = r \/ pc[q] # "responded" THEN "unanswered" ELSE pc[q]]
    ELSE [pc EXCEPT ![r] = "responded"]

\* bodies of the ledger's non-OK answers
Details == {<<"d", "u", "p">>}

-----------------------------------------------------------------------------
(* Requests the model draws from *)

ColG == <<"g">>
ColD == <<"d">>
ColA == <<"a">>
ColN == <<"n">>

ADate == <<"0", "1", "-", "0", "2">>

Row(g, d, a) ==
    (ColG :> Str(g)) @@ (ColD :> Str(d)) @@ (ColA :> Str(a)) @@ (ColN :> Str(<<" ", "X">>))

CandidateRows ==
    { Row(<<"b">>, ADate, <<"1", "2", ",", "5", "0">>),
      Row(<<"b", " ">>, <<" ">>, <<"5">>),
      Row(<<"1">>, ADate, <<"-">>),
      Row(<<"1">>, ADate, <<"-", "1", ".", "0", "0", "0">>),
      (ColD :> Str(ADate)) @@ (ColA :> Str(<<"3">>)),
      Row(<<"c", "o", "n", "s", "t", "r", "u", "c", "t", "o", "r">>, ADate, <<"7">>) }

RowLists == UNION {[1..n -> CandidateRows] : n \in 0..MaxRows}

Direct(column) == [type |-> "direct", column |-> column]
Merge(columns, separator) == [type |-> "merge", columns |-> columns, separator |-> separator]

\* date and amount direct, payee merged, no rule for notes
MainMapping ==
    [date |-> Direct(ColD), amount |-> Direct(ColA), payee |-> Merge(<<ColN, ColG>>, Str(<<"-">>))]

Acc1 == Str(<<"A", "1">>)
Acc2 == Str(<<"A", "2">>)
Acc3 == Str(<<"A", "3">>)

FullAccounts ==
    (<<"b">> :> Acc1) @@ (<<"1">> :> Acc2) @@ (EmptyKey :> Acc3) @@ (AllKey :> Acc1)

AccountMappings ==
    { [k \in {} |-> Acc1],
      FullAccounts,
      [FullAccounts EXCEPT ![<<"b">>] = Str(<<>>)],
      (<<"1">> :> Acc2) @@ (<<"b">> :> Acc1) }

AUrl == <<"h", ":", "/", "/", "x", "/">>

Bool(v) == [t |-> "boolean", b |-> v]

\* a request body: optional members are left out of the record
Body(rows, groupByColumn, accountMapping) ==
    [rows |-> rows, mapping |-> MainMapping, groupByColumn |-> groupByColumn,
     accountMapping |-> accountMapping]

\* bodies the handler refuses: no mapping, or no rows
RefusedBodies ==
    { [rows |-> rows, accountMapping |-> FullAccounts] : rows \in RowLists }
    \cup { [mapping |-> MainMapping, accountMapping |-> FullAccounts] }

BaseBodies ==
    { Body(rows, g, am) : rows \in RowLists, g \in {Undefined, Str(ColG)}, am \in AccountMappings }
    \cup RefusedBodies

WithDryRun(b, v) == [k \in DOMAIN b \cup {"dryRun"} |-> IF k = "dryRun" THEN Bool(v) ELSE b[k]]
WithConfig(b, url) ==
    [k \in DOMAIN b \cup {"actualConfig"} |->
        IF k = "actualConfig" THEN [serverUrl |-> url] ELSE b[k]]

Urls == {Str(AUrl), Str(<<" ">>)}

Requests ==
    LET modes == BaseBodies \cup {WithDryRun(b, v) : b \in BaseBodies, v \in BOOLEAN}
    IN  modes \cup {WithConfig(b, u) : b \in modes, u \in Urls}

Envs == [MOCK_ACTUAL : BOOLEAN, ACTUAL_SERVER_URL : {Undefined, Str(AUrl)}]

-----------------------------------------------------------------------------
(* The handler as a state machine *)

InitOf(reqs, requests, envs) ==
    /\ env \in envs
    /\ body \in [reqs -> requests]
    /\ pc = [r \in reqs |-> "received"]
    /\ entries = [r \in reqs |-> <<>>]
    /\ idx = [r \in reqs |-> 0]
    /\ result = [r \in reqs |-> <<>>]
    /\ response = [r \in reqs |-> NoResponse]
    /\ calls = <<>>
    /\ fin = <<>>
    /\ fout = <<>>
    /\ ui = <<>>
    /\ route = [r \in reqs |-> "import"]

Init == InitOf({1}, Requests, Envs)

\* the state after a synchronous stretch of the handler that ends as `run` says
Proceed(r, run) ==
    /\ pc' = [pc EXCEPT ![r] = run.pc]
    /\ idx' = [idx EXCEPT ![r] = run.idx]
    /\ result' = [result EXCEPT ![r] = run.result]
    /\ response' = [response EXCEPT ![r] = run.response]
    /\ calls' = IF run.call = <<>> THEN calls
                ELSE Append(calls, [req |-> r, outcome |-> "pending"] @@ run.call[1])

\* the handler from its first line to its first await, or to its answer
Import(r) ==
    /\ route[r] = "import"
    /\ pc[r] = "received"
    /\ LET b == body[r] IN
       IF "rows" \notin DOMAIN b \/ "mapping" \notin DOMAIN b
       THEN /\ pc' = [pc EXCEPT ![r] = "responded"]
            /\ response' = [response EXCEPT ![r] = MissingInput]
            /\ UNCHANGED <<entries, idx, result, calls>>
       ELSE LET grouped == groupRows(b.rows, Get(b, "groupByColumn")) IN
            IF grouped.threw
            THEN /\ \E out \in UncaughtOutcomes :
                        /\ response' = [response EXCEPT ![r] = out]
                        /\ pc' = PcAfterUncaught(r, out)
                 /\ UNCHANGED <<entries, idx, result, calls>>
            ELSE /\ entries' = [entries EXCEPT ![r] = ObjectEntries(grouped)]
                 /\ Proceed(r, RunLoop(b, env, ObjectEntries(grouped), 1, <<>>))
    /\ UNCHANGED <<env, body, fin, fout, ui, route>>

\* the index in calls of the request's call in flight
Pending(r) == {c \in 1..Len(calls) : calls[c].req = r /\ calls[c].outcome = "pending"}

\* the ledger answers OK: the loop goes on with the next group
FetchOk(r) ==
    /\ pc[r] = "awaiting"
    /\ \E c \in Pending(r) :
        /\ LET run == RunLoop(body[r], env, entries[r], idx[r] + 1, result[r])
           IN  /\ pc' = [pc EXCEPT ![r] = run.pc]
               /\ idx' = [idx EXCEPT ![r] = run.idx]
               /\ result' = [result EXCEPT ![r] = run.result]
               /\ response' = [response EXCEPT ![r] = run.response]
               /\ calls' = IF run.call = <<>> THEN [calls EXCEPT ![c].outcome = "ok"]
                           ELSE Append([calls EXCEPT ![c].outcome = "ok"],
                                       [req |-> r, outcome |-> "pending"] @@ run.call[1])
    /\ UNCHANGED <<env, body, entries, fin, fout, ui, route>>

\* mutant of FetchNotOk: the failed call is issued once more
FetchNotOkRetry(r) ==
    /\ pc[r] = "awaiting"
    /\ \E c \in Pending(r) :
        calls' = Append([calls EXCEPT ![c].outcome = "notok"],
                        [calls[c] EXCEPT !.outcome = "pending"])
    /\ UNCHANGED <<env, body, pc, entries, idx, result, response, fin, fout, ui, route>>

\* the ledger answers with a non-OK status: 502 and return
FetchNotOk(r) ==
    /\ pc[r] = "awaiting"
    /\ \E c \in Pending(r), detail \in Details :
        /\ calls' = [calls EXCEPT ![c].outcome = "notok"]
        /\ response' = [response EXCEPT ![r] = ImportFailed(calls[c].group, detail, result[r])]
        /\ pc' = [pc EXCEPT ![r] = "responded"]
    /\ UNCHANGED <<env, body, entries, idx, result, fin, fout, ui, route>>

\* fetch rejects (no connection, DNS, timeout): the await throws
FetchRejects(r) ==
    /\ pc[r] = "awaiting"
    /\ \E c \in Pending(r), out \in UncaughtOutcomes :
        /\ calls' = [calls EXCEPT ![c].outcome = "rejected"]
        /\ response' = [response EXCEPT ![r] = out]
        /\ pc' = PcAfterUncaught(r, out)
    /\ UNCHANGED <<env, body, entries, idx, result, fin, fout, ui, route>>

Next ==
    \E r \in DOMAIN body :
        \/ Import(r)
        \/ FetchOk(r)
        \/ FetchNotOk(r)
        \/ FetchRejects(r)

Spec == Init /\ [][Next]_vars

-----------------------------------------------------------------------------
(* Vocabulary of the claims about POST /api/import *)

Finished(r) == pc[r] \in {"responded", "unanswered"}

\* the request asks for a dry run (the member is true, or left out)
AsksDryRun(r) == "dryRun" \notin DOMAIN body[r] \/ body[r].dryRun = Bool(TRUE)
AsksLive(r) == "dryRun" \in DOMAIN body[r] /\ body[r].dryRun = Bool(FALSE)

\* positions in calls of the ledger calls of request r, and the calls themselves
CallIdsOf(r) == {c \in 1..Len(calls) : calls[c].req = r}
CallsOf(r) == LET Mine(c) == c.req = r IN SelectSeq(calls, Mine)
FailedCallIds(r) == {c \in CallIdsOf(r) : calls[c].outcome \in {"notok", "rejected"}}

IsSummary(resp) == resp.status = 200 \/ "groups" \in DOMAIN resp \/ "totalTransactions" \in DOMAIN resp

\* the account mapping of r holds a non-empty account id for the group key
HasAccount(r, key) ==
    /\ key \in DOMAIN body[r].accountMapping
    /\ body[r].accountMapping[key].s # <<>>

\* C1: a request processed in dry-run mode never issues a ledger call and
\* never ends in the 502 of a ledger failure, whatever its rows, grouping
\* column, account mapping and ledger configuration.
C1_DryRunNeverCallsLedger ==
    \A r \in DOMAIN body :
        AsksDryRun(r) => CallIdsOf(r) = {} /\ response[r].status # 502

\* C1 witness: a dry run over two groups or more, with accounts mapped and a
\* server URL at hand, has answered with its summary.
C1_Witness ==
    \E r \in DOMAIN body :
        /\ AsksDryRun(r)
        /\ ~env.MOCK_ACTUAL
        /\ response[r].status = 200
        /\ Len(response[r].groups) >= 2
        /\ \A j \in 1..Len(entries[r]) : HasAccount(r, entries[r][j].key)
        /\ env.ACTUAL_SERVER_URL = Str(AUrl)

\* C2: when the ledger call of the k-th group is the first to fail, the calls
\* issued are those of groups 1..k in loop order, the earlier ones answered
\* OK, none follows, and the answer holds no groups list and no totals.
C2_FailFastAtFirstFailure ==
    \A r \in DOMAIN body :
        \A c \in FailedCallIds(r) :
            LET mine == CallsOf(r)
                k == Len(mine)
            IN  /\ mine[k] = calls[c]
                /\ k <= Len(entries[r])
                /\ \A j \in 1..k : mine[j].group = entries[r][j].key
                /\ \A j \in 1..(k - 1) : mine[j].outcome = "ok"
                /\ Finished(r)
                /\ ~IsSummary(response[r])

\* C2 witness: three groups, the second group's call failed after the first
\* group's call succeeded.
C2_Witness ==
    \E r \in DOMAIN body :
        /\ Len(entries[r]) = 3
        /\ Len(CallsOf(r)) = 2
        /\ CallsOf(r)[1].outcome = "ok"
        /\ CallsOf(r)[2].outcome = "notok"
        /\ response[r].status = 502

\* C3: every failure of a ledger call, a non-OK answer or a rejected fetch
\* alike, ends the request with an error answer that carries the
\* collaborator's detail message.
C3_AnyLedgerFailureReportsDetail ==
    \A r \in DOMAIN body :
        FailedCallIds(r) # {} =>
            /\ pc[r] = "responded"
            /\ response[r].status = 502
            /\ "details" \in DOMAIN response[r]

\* the loop position of the first group without an account, 0 if there is none
FirstUnmapped(r) ==
    LET unmapped == {j \in 1..Len(entries[r]) : ~HasAccount(r, entries[r][j].key)}
    IN  IF unmapped = {} THEN 0 ELSE CHOOSE j \in unmapped : \A o \in unmapped : j <= o

NoLedgerFailure(r) == FailedCallIds(r) = {}

\* the calls of r are those of the first n groups, in loop order
CalledExactly(r, n) ==
    /\ Len(CallsOf(r)) = n
    /\ \A j \in 1..n : CallsOf(r)[j].group = entries[r][j].key

\* C4 as stated: in live mode, when group k is the first without an account
\* and no earlier ledger call failed, the request ends at k with the
\* missing-account error naming group k, after calls for groups 1..k-1 only.
C4_MissingAccountAbortsAtGroup ==
    \A r \in DOMAIN body :
        (AsksLive(r) /\ Finished(r) /\ FirstUnmapped(r) > 0 /\ NoLedgerFailure(r)) =>
            /\ response[r] = MissingAccount(entries[r][FirstUnmapped(r)].key)
            /\ CalledExactly(r, FirstUnmapped(r) - 1)

\* the server URL the request or, failing that, the environment supplies
UrlAtHand(r) ==
    LET cfg == Get(body[r], "actualConfig")
        own == IF "serverUrl" \in DOMAIN cfg THEN cfg.serverUrl.s ELSE <<>>
        amb == IF env.ACTUAL_SERVER_URL.t = "string" THEN env.ACTUAL_SERVER_URL.s ELSE <<>>
    IN  IF own # <<>> THEN own ELSE amb

Blank(s) == \A i \in 1..Len(s) : s[i] \in WhiteSpace

\* C4 amended: in live mode without MOCK_ACTUAL, with a non-blank server
\* URL, when group k is the first without an account and no earlier ledger
\* call failed, the request ends at k with the missing-account error naming
\* k after calls for groups 1..k-1 only; with a blank server URL it ends at
\* the first group with the missing-server-URL error and no call at all.
C4_MissingAccountAbortsAtGroupGivenUrl ==
    \A r \in DOMAIN body :
        (AsksLive(r) /\ ~env.MOCK_ACTUAL /\ Finished(r) /\ NoLedgerFailure(r)) =>
            /\ (FirstUnmapped(r) > 0 /\ ~Blank(UrlAtHand(r))) =>
                    /\ response[r] = MissingAccount(entries[r][FirstUnmapped(r)].key)
                    /\ CalledExactly(r, FirstUnmapped(r) - 1)
            /\ (Len(entries[r]) > 0 /\ Blank(UrlAtHand(r))) =>
                    /\ response[r] = MissingServerUrl
                    /\ CallIdsOf(r) = {}

\* C4 witness: the third group has no account; the request ended there after
\* two successful calls.
C4_Witness ==
    \E r \in DOMAIN body :
        /\ AsksLive(r)
        /\ ~env.MOCK_ACTUAL
        /\ FirstUnmapped(r) = 3
        /\ response[r] = MissingAccount(entries[r][3].key)
        /\ Len(CallsOf(r)) = 2

\* the loop position of the group with the given key
PositionOf(r, key) == CHOOSE j \in 1..Len(entries[r]) : entries[r][j].key = key

\* amount present and date non-empty
IsValidTransaction(t) == t.amount.t = "number" /\ t.date.t = "string" /\ t.date.s # <<>>

Ascending(ids) == \A i, j \in 1..Len(ids) : i < j => ids[i] < ids[j]

Least(a, b) == IF a < b THEN a ELSE b

\* C5: the transactions of a ledger call are the group's transactions with
\* amount present and date non-empty, in row order; the invalid ones are not
\* sent but count in transactionCount and invalidCount and stay in the
\* preview; the number sent is transactionCount - invalidCount.
C5_OnlyValidTransactionsAreSent ==
    \A c \in 1..Len(calls) :
        LET r == calls[c].req
            j == PositionOf(r, calls[c].group)
            all == NormalizedOf(body[r], entries[r][j].rows)
            shown == result[r][j]
        IN  /\ Ascending(entries[r][j].rows)
            /\ calls[c].transactions = SelectSeq(all, IsValidTransaction)
            /\ shown.group = calls[c].group
            /\ shown.transactionCount = Len(all)
            /\ shown.invalidCount = Len(all) - Len(SelectSeq(all, IsValidTransaction))
            /\ shown.preview = SubSeq(all, 1, Least(PreviewSize, Len(all)))
            /\ Len(calls[c].transactions) = shown.transactionCount - shown.invalidCount

\* C5 witness: a call was issued for a group that holds a valid transaction
\* and one with an empty date; the preview shows the invalid one.
C5_Witness ==
    \E c \in 1..Len(calls) :
        LET shown == result[calls[c].req][PositionOf(calls[c].req, calls[c].group)]
        IN  /\ Len(calls[c].transactions) >= 1
            /\ shown.invalidCount >= 1
            /\ \E i \in 1..Len(shown.preview) :
                /\ shown.preview[i].amount # Null
                /\ shown.preview[i].date = Str(<<>>)

\* the position in rows of the first row whose group key is `key`
FirstSeen(r, key) ==
    LET b == body[r]
        at == {i \in 1..Len(b.rows) :
                ~Truthy(Get(b, "groupByColumn")) \/ GroupKeyOf(b.rows[i], b.groupByColumn.s) = key}
    IN  CHOOSE i \in at : \A o \in at : i <= o

\* C6: groups are processed, posted and listed in first-seen-key order, for
\* every key value, keys that look like non-negative integers included.
C6_GroupsInFirstSeenOrder ==
    \A r \in DOMAIN body :
        /\ \A p, q \in 1..Len(result[r]) :
            p < q => FirstSeen(r, result[r][p].group) < FirstSeen(r, result[r][q].group)
        /\ \A c, d \in CallIdsOf(r) :
            c < d => FirstSeen(r, calls[c].group) < FirstSeen(r, calls[d].group)

\* C7: a request has at most one ledger call in flight, a call is issued only
\* after every earlier call of the request was answered OK, and no group is
\* called twice.
C7_OneCallAtATimeOncePerGroup ==
    \A r \in DOMAIN body :
        /\ Cardinality(Pending(r)) <= 1
        /\ \A c, d \in CallIdsOf(r) :
            c < d => calls[c].outcome = "ok" /\ calls[c].group # calls[d].group
        /\ (pc[r] = "awaiting") = (Pending(r) # {})

\* C7 witness: the second call of a request is in flight, the first was
\* answered OK.
C7_Witness ==
    \E r \in DOMAIN body :
        /\ Len(CallsOf(r)) = 2
        /\ CallsOf(r)[1].outcome = "ok"
        /\ CallsOf(r)[2].outcome = "pending"

-----------------------------------------------------------------------------
(* groupRows on its own *)

GroupCells ==
    { <<"b">>, <<" ", "b">>, <<>>, <<" ">>, EmptyKey, AllKey, <<"1">>, <<"0", "1">>,
      <<"t", "o", "S", "t", "r", "i", "n", "g">> }

\* rows for grouping: the grouping column holds a text, or is missing
GroupingRows == {(ColG :> Str(cell)) : cell \in GroupCells} \cup {(ColD :> Str(ADate))}

GroupingRowLists == UNION {[1..n -> GroupingRows] : n \in 0..MaxRows}

GroupByColumns == {Undefined, Str(<<>>), Str(ColG), Str(ColN)}

NoRequests ==
    /\ env = [MOCK_ACTUAL |-> FALSE, ACTUAL_SERVER_URL |-> Undefined]
    /\ body = <<>>
    /\ pc = <<>>
    /\ entries = <<>>
    /\ idx = <<>>
    /\ result = <<>>
    /\ response = <<>>
    /\ calls = <<>>
    /\ ui = <<>>
    /\ route = <<>>

InitGroup ==
    /\ NoRequests
    /\ fin \in [fn : {"groupRows"}, rows : GroupingRowLists, groupByColumn : GroupByColumns]
    /\ fout = [done |-> FALSE]

ApplyGroupRows ==
    /\ fin.fn = "groupRows"
    /\ ~fout.done
    /\ fout' = [done |-> TRUE, grouped |-> groupRows(fin.rows, fin.groupByColumn)]
    /\ UNCHANGED <<env, body, pc, entries, idx, result, response, calls, fin, ui, route>>

NextGroup == ApplyGroupRows

SpecGroup == InitGroup /\ [][NextGroup]_vars

RECURSIVE SumOfSizes(_, _)
SumOfSizes(of, keys) ==
    IF keys = {} THEN 0
    ELSE LET k == CHOOSE x \in keys : TRUE
         IN  Len(of[k]) + SumOfSizes(of, keys \ {k})

\* the places (key, position) at which row i occurs in the groups
PlacesOf(of, i) == {<<k, p>> \in UNION {{k} \X (1..Len(of[k])) : k \in DOMAIN of} : of[k][p] = i}

\* C8: groupRows partitions its input for every row sequence and every
\* grouping column, whatever text the column holds: it never fails, every
\* row is in exactly one group, in its original relative order, and the
\* group sizes add up to the number of rows.
C8_GroupRowsPartitions ==
    fout.done =>
        /\ ~fout.grouped.threw
        /\ \A i \in 1..Len(fin.rows) : Cardinality(PlacesOf(fout.grouped.of, i)) = 1
        /\ \A k \in DOMAIN fout.grouped.of : Ascending(fout.grouped.of[k])
        /\ SumOfSizes(fout.grouped.of, DOMAIN fout.grouped.of) = Len(fin.rows)

\* the text of row i in the grouping column, trimmed; empty when missing
TrimmedGroupValue(i) ==
    LET v == Get(fin.rows[i], fin.groupByColumn.s)
    IN  IF v.t = "string" THEN Trim(v.s) ELSE <<>>

GroupOfRow(i) == CHOOSE k \in DOMAIN fout.grouped.of : PlacesOf(fout.grouped.of, i) \cap ({k} \X Nat) # {}

Grouped == fout.done /\ ~fout.grouped.threw /\ Truthy(fin.groupByColumn)

\* C9: the key of the rows with an empty or missing grouping value is
\* distinct from the key of every real value, so such a row never shares a
\* group with a row that has a value; and the key of the single group of an
\* ungrouped import is no key that a column value yields.
C9_SentinelKeysAreReserved ==
    Grouped =>
        /\ \A i, j \in 1..Len(fin.rows) :
            (TrimmedGroupValue(i) = <<>> /\ TrimmedGroupValue(j) # <<>>)
                => GroupOfRow(i) # GroupOfRow(j)
        /\ AllKey \notin DOMAIN fout.grouped.of

-----------------------------------------------------------------------------
(* mapRows on one row *)

ColB == <<"b">>
ColZ == <<"z">>

\* rows for mapping: columns a and b hold a text or are missing; no row has z
MappingRows ==
    { [c \in cols |-> Str(IF c = ColA THEN va ELSE vb)] :
        cols \in SUBSET {ColA, ColB},
        va \in {<<" ", "x", " ">>, <<>>},
        vb \in {<<"y">>, <<" ">>, <<>>} }

Absent == [t |-> "absent"]

Rules ==
    { Null, Direct(ColA), Direct(ColZ), [type |-> "direct"],
      Merge(<<ColA, ColB>>, Str(<<"-">>)),
      Merge(<<ColB, ColZ, ColA>>, Str(<<>>)),
      [type |-> "merge", columns |-> <<ColA, ColB>>],
      [type |-> "merge"] }

TargetFields == {"date", "amount", "payee", "notes"}

\* for each key what the configuration holds under it, Absent for a key it lacks
RuleChoices ==
    [ date : Rules \cup {Absent},
      amount : {Absent, Direct(ColA)},
      payee : Rules \cup {Absent},
      notes : {Absent, Null, Direct(ColB)},
      memo : {Absent, Direct(ColA)} ]

MappingOf(choice) ==
    [k \in {f \in DOMAIN choice : choice[f] # Absent} |-> choice[k]]

InitMap ==
    /\ NoRequests
    /\ fin \in [fn : {"mapRows"}, row : MappingRows, mapping : {MappingOf(c) : c \in RuleChoices}]
    /\ fout = [done |-> FALSE]

ApplyMapRows ==
    /\ fin.fn = "mapRows"
    /\ ~fout.done
    /\ fout' = [done |-> TRUE, mapped |-> mapRows(<<fin.row>>, fin.mapping)[1]]
    /\ UNCHANGED <<env, body, pc, entries, idx, result, response, calls, fin, ui, route>>

NextMap == ApplyMapRows

SpecMap == InitMap /\ [][NextMap]_vars

IsDirectOnMissingColumn(rule, row) ==
    /\ rule # Null
    /\ "type" \in DOMAIN rule /\ rule.type = "direct"
    /\ "column" \in DOMAIN rule /\ rule.column \notin DOMAIN row

\* C10: for every row and every mapping configuration, mapping a row yields
\* a record of exactly the four fields date, amount, payee and notes, each a
\* string; a field without a rule is the empty string, and so is a direct
\* rule on a column the row lacks.
C10_MappedRowHasTheFourFields ==
    fout.done =>
        /\ DOMAIN fout.mapped = TargetFields
        /\ \A f \in TargetFields :
            /\ fout.mapped[f].t = "string"
            /\ (f \notin DOMAIN fin.mapping \/ fin.mapping[f] = Null) => fout.mapped[f].s = <<>>
            /\ (f \in DOMAIN fin.mapping /\ IsDirectOnMissingColumn(fin.mapping[f], fin.row))
                    => fout.mapped[f].s = <<>>

-----------------------------------------------------------------------------
(* parseAmount on its own *)

AmountChars == {"0", "1", "5", ".", ",", "-", " ", "$"}

\* the amount texts of the specification's examples, and their kin
AmountExamples ==
    { <<"1", ".", "2", "3", "4", ",", "5", "6">>,
      <<"-", "1", "2", ",", "5", "0">>,
      <<"a", "b", "c">>,
      <<"0", ",", "0", "0">>,
      <<"$", " ", "1", "2", ",", "5", "0">>,
      <<"1", "2", ",", "5", "0", " ", "E", "U", "R">>,
      <<"1", ",", "2", ",", "3">> }

AmountTexts == UNION {[1..n -> AmountChars] : n \in 0..MaxAmountLen} \cup AmountExamples

InitAmount ==
    /\ NoRequests
    /\ fin \in [fn : {"parseAmount"}, text : AmountTexts]
    /\ fout = [done |-> FALSE]

ApplyParseAmount ==
    /\ fin.fn = "parseAmount"
    /\ ~fout.done
    /\ fout' = [done |-> TRUE, value |-> parseAmount(Str(fin.text))]
    /\ UNCHANGED <<env, body, pc, entries, idx, result, response, calls, fin, ui, route>>

NextAmount == ApplyParseAmount

SpecAmount == InitAmount /\ [][NextAmount]_vars

HasDigit(text) == \E i \in 1..Len(text) : text[i] \in Digits

\* C11: parseAmount returns none, not zero, for every text without a digit:
\* the empty text, whitespace, 'abc', symbols or letters only.
C11_NoDigitIsNone ==
    (fout.done /\ ~HasDigit(fin.text)) => fout.value = Null

IsDigitCommaOrMinus(c) == c \in Digits \cup {",", "-"}

RECURSIVE IndexOfComma(_)
IndexOfComma(s) ==
    IF s = <<>> THEN 1 ELSE IF Head(s) = "," THEN 1 ELSE 1 + IndexOfComma(Tail(s))

\* the text with the dots removed and everything but digits, ',' and '-'
\* stripped, without its leading minus sign
Unsigned(text) ==
    LET kept == SelectSeq(text, IsDigitCommaOrMinus)
    IN  IF kept # <<>> /\ Head(kept) = "-" THEN Tail(kept) ELSE kept

IsNegative(text) ==
    LET kept == SelectSeq(text, IsDigitCommaOrMinus)
    IN  kept # <<>> /\ Head(kept) = "-"

\* an amount in the European convention: digits, at most one decimal comma,
\* a minus sign in front at most, among dots and stray symbols
IsEuropeanAmount(text) ==
    LET u == Unsigned(text)
    IN  /\ HasDigit(u)
        /\ \A i \in 1..Len(u) : u[i] # "-"
        /\ Cardinality({i \in 1..Len(u) : u[i] = ","}) <= 1

\* its value: the digits before the comma are the integer part, those after
\* it the fraction
EuropeanValue(text) ==
    LET u == Unsigned(text)
        comma == IndexOfComma(u)
        whole == SubSeq(u, 1, comma - 1)
        fraction == StripTrailingZeros(SubSeq(u, comma + 1, Len(u)))
    IN  Num(IsNegative(text), DigitsValue(whole \o fraction), Len(fraction))

\* C12: parseAmount reads the European convention: dots are thousands
\* separators and are removed, ',' is the decimal point, every other
\* character is stripped; '1.234,56' is 1234.56, '-12,50' is -12.5, a stray
\* currency symbol is tolerated, and '0' and '0,00' are the number zero, not
\* none.
C12_EuropeanConvention ==
    fout.done =>
        /\ IsEuropeanAmount(fin.text) => fout.value = EuropeanValue(fin.text)
        /\ fin.text = <<"1", ".", "2", "3", "4", ",", "5", "6">> => fout.value = Num(FALSE, 123456, 2)
        /\ fin.text = <<"-", "1", "2", ",", "5", "0">> => fout.value = Num(TRUE, 125, 1)
        /\ fin.text = <<"$", " ", "1", "2", ",", "5", "0">> => fout.value = Num(FALSE, 125, 1)
        /\ fin.text \in {<<"0">>, <<"0", ",", "0", "0">>} =>
                fout.value = Num(FALSE, 0, 0) /\ fout.value # Null

\* C12 witness: '1.234,56' was parsed to 1234.56.
C12_Witness ==
    /\ fout.done
    /\ fin.text = <<"1", ".", "2", "3", "4", ",", "5", "6">>
    /\ fout.value = [t |-> "number", nan |-> FALSE, neg |-> FALSE, mant |-> 123456, scale |-> 2]

IsMergeRule(rule) == rule # Null /\ "type" \in DOMAIN rule /\ rule.type = "merge"

\* the listed columns taken from the left: a missing or blank value adds
\* nothing, the first value stands alone, a later one follows the separator
RECURSIVE MergedText(_, _, _, _)
MergedText(row, columns, sep, sofar) ==
    IF columns = <<>> THEN sofar
    ELSE LET v == IF Head(columns) \in DOMAIN row THEN Trim(row[Head(columns)].s) ELSE <<>>
         IN  MergedText(row, Tail(columns), sep,
                IF v = <<>> THEN sofar ELSE IF sofar = <<>> THEN v ELSE sofar \o sep \o v)

-----------------------------------------------------------------------------
(* Claims about the counts of POST /api/import *)

\* the transaction the handler derives from row i of request r
TransactionOf(r, i) == Normalize(mapRow(body[r].rows[i], body[r].mapping))

\* amount none, or date empty
LacksAmountOrDate(t) == t.amount = Null \/ t.date \in {Undefined, Str(<<>>)}

\* C14: a transaction counts as invalid iff its amount is none or its date
\* is empty; payee and notes play no part.  invalidCount of a group is the
\* number of such transactions, between 0 and transactionCount.
C14_InvalidIffNoAmountOrNoDate ==
    \A r \in DOMAIN body :
        \A j \in 1..Len(result[r]) :
            LET ids == entries[r][j].rows
                bad == {p \in 1..Len(ids) : LacksAmountOrDate(TransactionOf(r, ids[p]))}
            IN  /\ result[r][j].transactionCount = Len(ids)
                /\ result[r][j].invalidCount = Cardinality(bad)
                /\ 0 <= result[r][j].invalidCount
                /\ result[r][j].invalidCount <= result[r][j].transactionCount

\* C14 witness: a group of two transactions or more of which exactly one is
\* invalid, and a valid one has an empty payee.
C14_Witness ==
    \E r \in DOMAIN body :
        \E j \in 1..Len(result[r]) :
            /\ result[r][j].transactionCount >= 2
            /\ result[r][j].invalidCount = 1
            /\ \E p \in 1..Len(result[r][j].preview) :
                /\ ~LacksAmountOrDate(result[r][j].preview[p])
                /\ result[r][j].preview[p].payee = Str(<<>>)

RECURSIVE Total(_, _)
Total(groups, field) ==
    IF Len(groups) = 0 THEN 0
    ELSE Total(SubSeq(groups, 1, Len(groups) - 1), field) + groups[Len(groups)][field]

\* C15: a successful answer reports totalTransactions and totalInvalid as
\* the sums over its groups; all groups were processed, so
\* totalTransactions is the number of rows of the request; dryRun echoes the
\* mode.  One valid row, no grouping column, dry run: dryRun true, one
\* group, totalTransactions 1, totalInvalid 0.
C15_TotalsAreSumsOverAllGroups ==
    \A r \in DOMAIN body :
        response[r].status = 200 =>
            LET resp == response[r]
                n == Len(body[r].rows)
            IN  /\ resp.totalTransactions = Total(resp.groups, "transactionCount")
                /\ resp.totalInvalid = Total(resp.groups, "invalidCount")
                /\ resp.totalTransactions = n
                /\ resp.totalInvalid = Cardinality({i \in 1..n : LacksAmountOrDate(TransactionOf(r, i))})
                /\ resp.dryRun = Bool(AsksDryRun(r))
                /\ (n = 1 /\ AsksDryRun(r) /\ ~LacksAmountOrDate(TransactionOf(r, 1))
                        /\ ~Truthy(Get(body[r], "groupByColumn")))
                    => /\ Len(resp.groups) = 1
                       /\ resp.groups[1].group = AllKey
                       /\ resp.groups[1].transactionCount = 1
                       /\ resp.groups[1].invalidCount = 0
                       /\ resp.totalTransactions = 1
                       /\ resp.totalInvalid = 0

\* C15 witness: the dry run of one valid row without grouping column has
\* answered.
C15_Witness ==
    \E r \in DOMAIN body :
        /\ response[r].status = 200
        /\ response[r].dryRun = Bool(TRUE)
        /\ Len(body[r].rows) = 1
        /\ "groupByColumn" \in DOMAIN body[r] /\ body[r].groupByColumn = Undefined
        /\ response[r].totalTransactions = 1
        /\ response[r].totalInvalid = 0
        /\ Len(response[r].groups) = 1

-----------------------------------------------------------------------------
(* Further claims about groupRows *)

\* C16: without a grouping column (absent or empty) grouping yields exactly
\* one group, under the fixed key, holding all rows in their original order;
\* for an empty row list it is one empty group.
C16_NoColumnYieldsOneGroupOfAllRows ==
    (fout.done /\ fin.groupByColumn \in {Undefined, Str(<<>>)}) =>
        /\ ~fout.grouped.threw
        /\ DOMAIN fout.grouped.of = {AllKey}
        /\ fout.grouped.keys = <<AllKey>>
        /\ Len(fout.grouped.of[AllKey]) = Len(fin.rows)
        /\ \A i \in 1..Len(fin.rows) : fout.grouped.of[AllKey][i] = i

\* C16 witness: two rows or more, the grouping column the empty string, were
\* grouped into the single group.
C16_Witness ==
    /\ fout.done
    /\ fin.groupByColumn = Str(<<>>)
    /\ Len(fin.rows) >= 2
    /\ Len(fout.grouped.of[AllKey]) = Len(fin.rows)

-----------------------------------------------------------------------------
(* Further claims about POST /api/import *)

Accepted(r) == "rows" \in DOMAIN body[r] /\ "mapping" \in DOMAIN body[r]

\* C17: no row content makes an import fail: a dry run whose rows are
\* string-keyed records and whose mapping is present ends with the success
\* summary, never with an error and never without an answer.
C17_DryRunAlwaysSucceeds ==
    \A r \in DOMAIN body :
        (AsksDryRun(r) /\ Accepted(r) /\ pc[r] # "received") =>
            /\ pc[r] = "responded"
            /\ response[r].status = 200

\* the request asks for a live import and the process really posts
LiveMode(r) == AsksLive(r) /\ ~env.MOCK_ACTUAL

\* the group key of row i of request r, read off the row
KeyOfRow(r, i) ==
    LET b == body[r]
        column == Get(b, "groupByColumn")
    IN  IF column \in {Undefined, Str(<<>>)} THEN AllKey
        ELSE LET cell == IF column.s \in DOMAIN b.rows[i] THEN Trim(b.rows[i][column.s].s) ELSE <<>>
             IN  IF cell = <<>> THEN EmptyKey ELSE cell

\* C18: every ledger call carries the account id the account mapping gives
\* to the call's group key, and every transaction in it stems from a row of
\* that group: nothing is posted under another group's account.
C18_CallCarriesTheAccountOfItsGroup ==
    \A c \in 1..Len(calls) :
        LET r == calls[c].req
            am == body[r].accountMapping
            rowsOfGroup == {i \in 1..Len(body[r].rows) : KeyOfRow(r, i) = calls[c].group}
        IN  /\ calls[c].group \in DOMAIN am
            /\ calls[c].accountId = am[calls[c].group]
            /\ calls[c].accountId.s # <<>>
            /\ \A p \in 1..Len(calls[c].transactions) :
                \E i \in rowsOfGroup : calls[c].transactions[p] = TransactionOf(r, i)
            /\ Len(calls[c].transactions) <= Cardinality(rowsOfGroup)

\* C18 witness: one request has posted two groups under two different
\* accounts.
C18_Witness ==
    \E r \in DOMAIN body :
        /\ Len(CallsOf(r)) >= 2
        /\ CallsOf(r)[1].accountId # CallsOf(r)[2].accountId
        /\ CallsOf(r)[1].transactions # <<>>
        /\ CallsOf(r)[2].transactions # <<>>

\* the valid transactions of the j-th group of r, in row order
ValidOfGroup(r, j) ==
    SelectSeq([p \in 1..Len(entries[r][j].rows) |-> TransactionOf(r, entries[r][j].rows[p])],
              IsValidTransaction)

\* C19: in live mode a group whose list of valid transactions is empty is
\* posted like any other, with an empty list: every group the handler has
\* taken up without a configuration error has its call, and a failed call
\* with an empty list ends the request.
C19_EmptyBatchIsStillPosted ==
    \A r \in DOMAIN body :
        LiveMode(r) =>
            /\ \A j \in 1..Len(result[r]) :
                response[r].status # 400 =>
                    \E c \in CallIdsOf(r) :
                        /\ calls[c].group = entries[r][j].key
                        /\ calls[c].transactions = ValidOfGroup(r, j)
            /\ \A c \in FailedCallIds(r) :
                calls[c].transactions = <<>> =>
                    /\ Finished(r)
                    /\ ~IsSummary(response[r])
                    /\ \A d \in CallIdsOf(r) : d <= c

\* C19 witness: a live import has succeeded and one of its calls carried an
\* empty transaction list for a group that has rows.
C19_Witness ==
    \E r \in DOMAIN body :
        /\ LiveMode(r)
        /\ response[r].status = 200
        /\ \E c \in CallIdsOf(r) :
            /\ calls[c].transactions = <<>>
            /\ calls[c].outcome = "ok"
            /\ result[r][PositionOf(r, calls[c].group)].transactionCount >= 1

\* neither the request nor the environment supplies a server URL
NoUrlSupplied(r) ==
    LET cfg == Get(body[r], "actualConfig")
    IN  /\ "serverUrl" \notin DOMAIN cfg \/ Blank(cfg.serverUrl.s)
        /\ env.ACTUAL_SERVER_URL = Undefined \/ Blank(env.ACTUAL_SERVER_URL.s)

GroupingSucceeds(r) == ~groupRows(body[r].rows, Get(body[r], "groupByColumn")).threw

IsConfigurationError(resp) ==
    /\ resp.status = 400
    /\ resp.error \in {MissingServerUrl.error, MissingAccount(<<>>).error}
    /\ ~IsSummary(resp)

\* C20 as stated: a live import without a server URL (request and
\* environment), or without an account for a group it reaches, ends in a
\* configuration error with no partial result and with no ledger call for
\* the group at which the field was missed.
C20_MissingFieldIsConfigurationError ==
    \A r \in DOMAIN body :
        (/\ LiveMode(r) /\ Accepted(r) /\ Finished(r) /\ NoLedgerFailure(r)
         /\ GroupingSucceeds(r)
         /\ (NoUrlSupplied(r) \/ FirstUnmapped(r) > 0)) =>
            IsConfigurationError(response[r])

\* C20 amended: the same for a live import that has at least one group: the
\* error is sent at the first group when the server URL in effect is blank,
\* else at the first group without an account; the groups behind it are not
\* taken up and no call goes out for the group itself.
C20_MissingFieldIsConfigurationErrorGivenAGroup ==
    \A r \in DOMAIN body :
        (/\ LiveMode(r) /\ Finished(r) /\ NoLedgerFailure(r)
         /\ Len(entries[r]) >= 1
         /\ (Blank(UrlAtHand(r)) \/ FirstUnmapped(r) > 0)) =>
            LET at == IF Blank(UrlAtHand(r)) THEN 1 ELSE FirstUnmapped(r)
            IN  /\ IsConfigurationError(response[r])
                /\ Len(result[r]) = at
                /\ \A c \in CallIdsOf(r) :
                    \E j \in 1..(at - 1) : calls[c].group = entries[r][j].key

\* C20 witness: no server URL anywhere, two groups or more with accounts:
\* the import ended at the first group with the missing-URL error.
C20_Witness ==
    \E r \in DOMAIN body :
        /\ LiveMode(r)
        /\ NoUrlSupplied(r)
        /\ Len(entries[r]) >= 2
        /\ FirstUnmapped(r) = 0
        /\ response[r] = MissingServerUrl
        /\ Len(result[r]) = 1
        /\ CallIdsOf(r) = {}

-----------------------------------------------------------------------------
(* POST /api/actual/accounts and POST /api/actual/budgets *)

\* a ?? b
Coalesce(a, b) == IF a \in {Undefined, Null} THEN b ELSE a

\* the fixed answers under MOCK_ACTUAL
MockAccounts ==
    << [id |-> <<"a", "c", "c", "-", "c", "h", "e", "c", "k", "i", "n", "g">>,
        name |-> <<"R", "a", "b", "o", " ", "B", "e", "t", "a", "a", "l", "r", "e", "k", "e", "n", "i", "n", "g">>],
       [id |-> <<"a", "c", "c", "-", "s", "a", "v", "i", "n", "g", "s">>, name |-> <<"R", "a", "b", "o", " ", "S", "p", "a", "a", "r", "r", "e", "k", "e", "n", "i", "n", "g">>] >>

MockBudgets ==
    << [id |-> <<"b", "u", "d", "g", "e", "t", "-", "m", "a", "i", "n">>, name |-> <<"M", "a", "i", "n", " ", "B", "u", "d", "g", "e", "t">>],
       [id |-> <<"b", "u", "d", "g", "e", "t", "-", "p", "e", "r", "s", "o", "n", "a", "l">>, name |-> <<"P", "e", "r", "s", "o", "n", "a", "l", " ", "B", "u", "d", "g", "e", "t">>] >>

\* (req.body?.serverUrl || process.env.ACTUAL_SERVER_URL || '').trim()
ListServerUrlOf(b, e) ==
    Trim(Or(Or(Get(b, "serverUrl"), e.ACTUAL_SERVER_URL), Str(<<>>)).s)

\* req.body?.password || process.env.ACTUAL_PASSWORD || ''
ListPasswordOf(b, e) == Or(Or(Get(b, "password"), Get(e, "ACTUAL_PASSWORD")), Str(<<>>)).s

\* req.body?.budgetId || process.env.ACTUAL_BUDGET_ID || ''
ListBudgetIdOf(b, e) == Or(Or(Get(b, "budgetId"), Get(e, "ACTUAL_BUDGET_ID")), Str(<<>>)).s

AccountsPath == <<"/", "a", "p", "i", "/", "a", "c", "c", "o", "u", "n", "t", "s">>
BudgetsPath == <<"/", "a", "p", "i", "/", "b", "u", "d", "g", "e", "t", "s">>

MissingListServerUrl == [status |-> 400, error |-> "ACTUAL_SERVER_URL ontbreekt."]

\* a payload is an array ([t |-> "array", items |-> ...]) or an object whose
\* members are the record's other fields
IsArray(v) == v.t = "array"

\* extractAccountList(payload)
extractAccountList(payload) ==
    IF IsArray(payload) THEN payload.items
    ELSE IF IsArray(Get(payload, "accounts")) THEN payload.accounts.items
    ELSE IF IsArray(Get(Get(payload, "data"), "accounts")) THEN payload.data.accounts.items
    ELSE <<>>

\* extractBudgetList(payload)
extractBudgetList(payload) ==
    IF IsArray(Get(payload, "budgets")) THEN payload.budgets.items
    ELSE IF IsArray(Get(Get(payload, "data"), "budgets")) THEN payload.data.budgets.items
    ELSE <<>>

UnknownAccount == <<"O", "n", "b", "e", "k", "e", "n", "d", "e", " ", "r", "e", "k", "e", "n", "i", "n", "g">>
UnknownBudget == <<"O", "n", "b", "e", "k", "e", "n", "d", " ", "b", "u", "d", "g", "e", "t">>

\* shapeAccount(account)
shapeAccount(account) ==
    [id |-> Coalesce(Get(account, "id"), Coalesce(Get(account, "uuid"),
                Coalesce(Get(account, "accountId"), Str(<<>>)))).s,
     name |-> Coalesce(Get(account, "name"), Coalesce(Get(account, "accountName"), Str(UnknownAccount))).s,
     raw |-> account]

\* shapeBudget(budget)
shapeBudget(budget) ==
    [id |-> Coalesce(Get(budget, "id"), Coalesce(Get(budget, "uuid"),
                Coalesce(Get(budget, "budgetId"), Str(<<>>)))).s,
     name |-> Coalesce(Get(budget, "name"), Coalesce(Get(budget, "budgetName"), Str(UnknownBudget))).s,
     raw |-> budget]

HasId(shaped) == shaped.id # <<>>

\* extractAccountList(payload).map(shapeAccount).filter((account) => account.id)
AccountsOf(payload) ==
    LET list == extractAccountList(payload)
    IN  SelectSeq([i \in 1..Len(list) |-> shapeAccount(list[i])], HasId)

\* extractBudgetList(payload).map(shapeBudget).filter((budget) => budget.id)
BudgetsOf(payload) ==
    LET list == extractBudgetList(payload)
    IN  SelectSeq([i \in 1..Len(list) |-> shapeBudget(list[i])], HasId)

\* the catch blocks of the two handlers
ListFailed(rt, details) ==
    [status |-> 502,
     error |-> IF rt = "accounts" THEN "Kon rekeningen niet ophalen bij Actual API."
               ELSE "Kon budget IDs niet ophalen bij Actual API.",
     details |-> details]

\* the handler of /api/actual/accounts up to its answer or its await
Accounts(r) ==
    /\ route[r] = "accounts"
    /\ pc[r] = "received"
    /\ IF env.MOCK_ACTUAL
       THEN /\ response' = [response EXCEPT ![r] = [status |-> 200, accounts |-> MockAccounts]]
            /\ pc' = [pc EXCEPT ![r] = "responded"]
            /\ calls' = calls
       ELSE IF ListServerUrlOf(body[r], env) = <<>>
       THEN /\ response' = [response EXCEPT ![r] = MissingListServerUrl]
            /\ pc' = [pc EXCEPT ![r] = "responded"]
            /\ calls' = calls
       ELSE /\ calls' = Append(calls, [req |-> r, outcome |-> "pending",
                                       url |-> StripSlash(ListServerUrlOf(body[r], env)) \o AccountsPath,
                                       password |-> ListPasswordOf(body[r], env),
                                       budgetId |-> ListBudgetIdOf(body[r], env)])
            /\ pc' = [pc EXCEPT ![r] = "fetching"]
            /\ response' = response
    /\ UNCHANGED <<env, body, entries, idx, result, fin, fout, ui, route>>

\* the handler of /api/actual/budgets up to its answer or its await
Budgets(r) ==
    /\ route[r] = "budgets"
    /\ pc[r] = "received"
    /\ IF env.MOCK_ACTUAL
       THEN /\ response' = [response EXCEPT ![r] = [status |-> 200, budgets |-> MockBudgets]]
            /\ pc' = [pc EXCEPT ![r] = "responded"]
            /\ calls' = calls
       ELSE IF ListServerUrlOf(body[r], env) = <<>>
       THEN /\ response' = [response EXCEPT ![r] = MissingListServerUrl]
            /\ pc' = [pc EXCEPT ![r] = "responded"]
            /\ calls' = calls
       ELSE /\ calls' = Append(calls, [req |-> r, outcome |-> "pending",
                                       url |-> StripSlash(ListServerUrlOf(body[r], env)) \o BudgetsPath,
                                       password |-> ListPasswordOf(body[r], env)])
            /\ pc' = [pc EXCEPT ![r] = "fetching"]
            /\ response' = response
    /\ UNCHANGED <<env, body, entries, idx, result, fin, fout, ui, route>>

\* account and budget objects the Actual server may list
ListedItems ==
    { [id |-> Str(<<"i", "1">>), name |-> Str(<<"N">>)],
      [uuid |-> Str(<<"u", "2">>)],
      [name |-> Str(<<"N">>)] }

Array(items) == [t |-> "array", items |-> items]

\* bodies of its OK answers
Payloads ==
    { Array(<<>>), [t |-> "object"] }
    \cup { Array(<<x, y>>) : x, y \in ListedItems }
    \cup { [t |-> "object", accounts |-> Array(<<x>>), budgets |-> Array(<<x>>)] : x \in ListedItems }
    \cup { [t |-> "object", data |-> [t |-> "object", accounts |-> Array(<<x>>), budgets |-> Array(<<x>>)]] :
            x \in ListedItems }

\* the Actual server answers OK with a JSON body
ListOk(r) ==
    /\ pc[r] = "fetching"
    /\ \E c \in Pending(r), payload \in Payloads :
        /\ calls' = [calls EXCEPT ![c].outcome = "ok"]
        /\ response' = [response EXCEPT ![r] =
                IF route[r] = "accounts"
                THEN [status |-> 200, accounts |-> AccountsOf(payload)]
                ELSE [status |-> 200, budgets |-> BudgetsOf(payload)]]
        /\ pc' = [pc EXCEPT ![r] = "responded"]
    /\ UNCHANGED <<env, body, entries, idx, result, fin, fout, ui, route>>

\* it answers with a non-OK status: the handler throws into its own catch
ListNotOk(r) ==
    /\ pc[r] = "fetching"
    /\ \E c \in Pending(r), detail \in Details :
        /\ calls' = [calls EXCEPT ![c].outcome = "notok"]
        /\ response' = [response EXCEPT ![r] = ListFailed(route[r], [kind |-> "status", detail |-> detail])]
        /\ pc' = [pc EXCEPT ![r] = "responded"]
    /\ UNCHANGED <<env, body, entries, idx, result, fin, fout, ui, route>>

\* fetch rejects: caught as well
ListRejects(r) ==
    /\ pc[r] = "fetching"
    /\ \E c \in Pending(r) :
        /\ calls' = [calls EXCEPT ![c].outcome = "rejected"]
        /\ response' = [response EXCEPT ![r] = ListFailed(route[r], [kind |-> "network"])]
        /\ pc' = [pc EXCEPT ![r] = "responded"]
    /\ UNCHANGED <<env, body, entries, idx, result, fin, fout, ui, route>>

-----------------------------------------------------------------------------
(* The three endpoints under every setting of the ACTUAL_ variables *)

APassword == <<"p", "w">>
ABudget == <<"B", "1">>
EnvUrl == <<"h", ":", "/", "/", "e">>

ActualEnvs ==
    [MOCK_ACTUAL : BOOLEAN,
     ACTUAL_SERVER_URL : {Undefined, Str(EnvUrl)},
     ACTUAL_PASSWORD : {Undefined, Str(<<"e", "p">>)},
     ACTUAL_BUDGET_ID : {Undefined, Str(<<"E", "B">>)},
     ACTUAL_ACCOUNTS_ENDPOINT : {Undefined, Str(<<"/", "v", "2", "/", "a">>)},
     ACTUAL_IMPORT_ENDPOINT : {Undefined, Str(<<"/", "v", "2", "/", "i">>)}]

\* the members of a connection form: left out, empty, blank or filled in
Omit(rec, keys) == [k \in DOMAIN rec \ keys |-> rec[k]]

ConnectionForms ==
    { Omit(f, {k \in DOMAIN f : f[k] = Absent}) :
        f \in [serverUrl : {Absent, Str(<<>>), Str(<<" ">>), Str(AUrl)},
               password : {Absent, Str(<<>>), Str(APassword)},
               budgetId : {Absent, Str(<<>>), Str(ABudget)}] }

ActualRowLists ==
    { <<>>,
      << Row(<<"b">>, ADate, <<"5">>) >>,
      << Row(<<"b">>, ADate, <<"5">>), Row(<<"1">>, ADate, <<"-">>) >>,
      << Row(<<"c", "o", "n", "s", "t", "r", "u", "c", "t", "o", "r">>, ADate, <<"7">>) >> }

ActualImportBodies ==
    LET base == { Body(rows, g, am) : rows \in ActualRowLists, g \in {Undefined, Str(ColG)},
                                     am \in {[k \in {} |-> Acc1], FullAccounts} }
        modes == base \cup {WithDryRun(b, FALSE) : b \in base}
    IN  modes \cup { [k \in DOMAIN b \cup {"actualConfig"} |-> IF k = "actualConfig" THEN f ELSE b[k]] :
                        b \in modes, f \in ConnectionForms }

BodiesOf(rt) == IF rt = "import" THEN ActualImportBodies ELSE ConnectionForms

InitActual ==
    /\ env \in ActualEnvs
    /\ \E rt \in {"import", "accounts", "budgets"} :
        /\ route = [r \in {1} |-> rt]
        /\ body \in [{1} -> BodiesOf(rt)]
    /\ pc = [r \in {1} |-> "received"]
    /\ entries = [r \in {1} |-> <<>>]
    /\ idx = [r \in {1} |-> 0]
    /\ result = [r \in {1} |-> <<>>]
    /\ response = [r \in {1} |-> NoResponse]
    /\ calls = <<>>
    /\ fin = <<>>
    /\ fout = <<>>
    /\ ui = <<>>

NextActual ==
    \E r \in DOMAIN body :
        \/ Import(r)
        \/ FetchOk(r)
        \/ FetchNotOk(r)
        \/ FetchRejects(r)
        \/ Accounts(r)
        \/ Budgets(r)
        \/ ListOk(r)
        \/ ListNotOk(r)
        \/ ListRejects(r)

SpecActual == InitActual /\ [][NextActual]_vars

-----------------------------------------------------------------------------
(* Claims about the configuration of the Actual connection *)

\* the group keys the rows of request r fall into
ExpectedKeys(r) ==
    IF Get(body[r], "groupByColumn") \in {Undefined, Str(<<>>)} THEN {AllKey}
    ELSE {KeyOfRow(r, i) : i \in 1..Len(body[r].rows)}

\* C21: with MOCK_ACTUAL 'true' no endpoint calls the Actual server: the
\* account and budget endpoints answer their fixed lists, and an import with
\* rows and mapping, live or not, with or without server URL and accounts,
\* answers the success summary holding every group.
C21_MockNeverCallsActual ==
    env.MOCK_ACTUAL =>
        /\ calls = <<>>
        /\ \A r \in DOMAIN body :
            pc[r] # "received" =>
                /\ route[r] = "accounts" => response[r] = [status |-> 200, accounts |-> MockAccounts]
                /\ route[r] = "budgets" => response[r] = [status |-> 200, budgets |-> MockBudgets]
                /\ (route[r] = "import" /\ Accepted(r)) =>
                    /\ response[r].status = 200
                    /\ "groups" \in DOMAIN response[r]
                    /\ {response[r].groups[j].group : j \in 1..Len(response[r].groups)} = ExpectedKeys(r)

-----------------------------------------------------------------------------
(* The React front end: the state of App and the callbacks that post to the
   backend *)

\* requests posted in one behaviour
MaxPosts == 2

\* const TARGET_FIELDS
TARGET_FIELDS == <<"date", "amount", "payee", "notes">>

\* getInitialRule(headers)
getInitialRule(headers) ==
    [type |-> "direct",
     column |-> IF headers = <<>> THEN <<>> ELSE headers[1],
     columns |-> <<>>,
     separator |-> Str(<<" ">>)]

\* the useState(...) initial values of App
UiInitial ==
    [headers |-> <<>>,
     rows |-> <<>>,
     mapping |-> [f \in {} |-> Null],
     groupByColumn |-> Str(<<>>),
     accountMapping |-> [k \in {} |-> Null],
     accounts |-> <<>>,
     budgets |-> <<>>,
     actualConfig |-> [serverUrl |-> Str(<<>>), password |-> Str(<<>>), budgetId |-> Str(<<>>)],
     dryRun |-> TRUE,
     message |-> "",
     importResult |-> Null,
     loadingAccounts |-> FALSE,
     loadingBudgets |-> FALSE,
     loadingImport |-> FALSE,
     lastApiError |-> Null,
     \* positions of the three async callbacks: the request awaited, or 0
     accountsReq |-> 0,
     budgetsReq |-> 0,
     importReq |-> 0,
     \* the actualConfig of the render whose loadBudgets is running
     closure |-> Null]

\* fetch('/api/...', { body: JSON.stringify(b) }) reaches the backend as a new request
Post(rt, b) ==
    /\ Len(body) < MaxPosts
    /\ body' = Append(body, b)
    /\ route' = Append(route, rt)
    /\ pc' = Append(pc, "received")
    /\ entries' = Append(entries, <<>>)
    /\ idx' = Append(idx, 0)
    /\ result' = Append(result, <<>>)
    /\ response' = Append(response, NoResponse)

NoPost == UNCHANGED <<body, route, pc, entries, idx, result, response>>

\* response.ok
IsOk(resp) == resp.status \in 200..299

\* what the CSV preview endpoint may answer
UiCsvPreviews ==
    { [headers |-> <<ColA>>, rows |-> << (ColA :> Str(<<"5">>)), (ColA :> Str(<<"x">>)) >>] }

\* uploadCsv, from the OK answer of /api/csv/preview on
CsvLoaded ==
    /\ \E payload \in UiCsvPreviews :
        ui' = [ui EXCEPT !.headers = payload.headers,
                         !.rows = payload.rows,
                         !.mapping = [f \in {TARGET_FIELDS[i] : i \in 1..4} |-> getInitialRule(payload.headers)],
                         !.message = "CSV geladen",
                         !.importResult = Null,
                         !.lastApiError = Null]
    /\ ui'.rows # ui.rows
    /\ NoPost
    /\ UNCHANGED <<env, calls, fin, fout>>

\* the dry-run checkbox: onChange={(event) => setDryRun(event.target.checked)}
SetDryRun ==
    /\ ui' = [ui EXCEPT !.dryRun = ~ui.dryRun]
    /\ NoPost
    /\ UNCHANGED <<env, calls, fin, fout>>

\* the three inputs of the connection form and the budget select
SetActualConfig ==
    /\ \E field \in {"serverUrl", "password", "budgetId"} :
        \E v \in {IF field = "serverUrl" THEN Str(AUrl)
                  ELSE IF field = "password" THEN Str(APassword) ELSE Str(ABudget)}
              \cup (IF field = "budgetId" THEN {Str(ui.budgets[i].id) : i \in 1..Len(ui.budgets)} ELSE {}) :
            /\ ui.actualConfig[field] # v
            /\ ui' = [ui EXCEPT !.actualConfig[field] = v]
    /\ NoPost
    /\ UNCHANGED <<env, calls, fin, fout>>

\* groupKeys(rows, groupByColumn)
groupKeys(rows, groupByColumn) ==
    IF ~Truthy(groupByColumn) THEN <<AllKey>>
    ELSE LET KeyAt(i) ==
                 LET cell == Trim(Coalesce(Get(rows[i], groupByColumn.s), Str(<<>>)).s)
                 IN  IF cell = <<>> THEN EmptyKey ELSE cell
             IsFirst(i) == \A j \in 1..(i - 1) : KeyAt(j) # KeyAt(i)
             firsts == SelectSeq([i \in 1..Len(rows) |-> i], IsFirst)
         IN  [p \in 1..Len(firsts) |-> KeyAt(firsts[p])]

\* the account select of one group
SetAccountMapping ==
    /\ \E g \in 1..Len(groupKeys(ui.rows, ui.groupByColumn)), a \in 1..Len(ui.accounts) :
        LET group == groupKeys(ui.rows, ui.groupByColumn)[g]
            chosen == Str(ui.accounts[a].id)
        IN  /\ Get(ui.accountMapping, group) # chosen
            /\ ui' = [ui EXCEPT !.accountMapping =
                        [k \in DOMAIN ui.accountMapping \cup {group} |->
                            IF k = group THEN chosen ELSE ui.accountMapping[k]]]
    /\ NoPost
    /\ UNCHANGED <<env, calls, fin, fout>>

\* loadAccounts up to its await
LoadAccounts ==
    /\ ~ui.loadingAccounts
    /\ IF Trim(ui.actualConfig.serverUrl.s) = <<>>
       THEN ui' = [ui EXCEPT !.message = "ACTUAL_SERVER_URL ontbreekt."] /\ NoPost
       ELSE IF ui.actualConfig.password.s = <<>>
       THEN ui' = [ui EXCEPT !.message = "ACTUAL_PASSWORD ontbreekt."] /\ NoPost
       ELSE IF Trim(ui.actualConfig.budgetId.s) = <<>>
       THEN ui' = [ui EXCEPT !.message = "ACTUAL_BUDGET_ID ontbreekt."] /\ NoPost
       ELSE /\ Post("accounts", ui.actualConfig)
            /\ ui' = [ui EXCEPT !.loadingAccounts = TRUE,
                                !.message = "Rekeningen ophalen van Actual server...",
                                !.lastApiError = Null,
                                !.accountsReq = Len(body) + 1]
    /\ ui' # ui
    /\ UNCHANGED <<env, calls, fin, fout>>

\* loadAccounts from the answer on
AccountsAnswered ==
    /\ ui.accountsReq # 0
    /\ pc[ui.accountsReq] = "responded"
    /\ LET resp == response[ui.accountsReq] IN
       IF ~IsOk(resp)
       THEN ui' = [ui EXCEPT !.lastApiError = [action |-> "load-accounts", status |-> resp.status],
                             !.message = "Rekeningen ophalen mislukt.",
                             !.loadingAccounts = FALSE, !.accountsReq = 0]
       ELSE ui' = [ui EXCEPT !.accounts = resp.accounts,
                             !.message = "Rekeningen geladen",
                             !.lastApiError = Null,
                             !.loadingAccounts = FALSE, !.accountsReq = 0]
    /\ NoPost
    /\ UNCHANGED <<env, calls, fin, fout>>

\* runImport up to its await
RunImport ==
    /\ ~ui.loadingImport
    /\ IF ui.rows = <<>>
       THEN ui' = [ui EXCEPT !.message = "Upload eerst CSV data."] /\ NoPost
       ELSE /\ Post("import", [rows |-> ui.rows,
                               mapping |-> ui.mapping,
                               groupByColumn |-> ui.groupByColumn,
                               accountMapping |-> ui.accountMapping,
                               dryRun |-> Bool(ui.dryRun),
                               actualConfig |-> ui.actualConfig])
            /\ ui' = [ui EXCEPT !.loadingImport = TRUE,
                                !.message = IF ui.dryRun THEN "Dry-run validatie gestart..."
                                            ELSE "Import gestart...",
                                !.lastApiError = Null,
                                !.importReq = Len(body) + 1]
    /\ ui' # ui
    /\ UNCHANGED <<env, calls, fin, fout>>

\* runImport from the answer on; the message is chosen by the dryRun of the
\* render that started it, which the request body carries
ImportAnswered ==
    /\ ui.importReq # 0
    /\ pc[ui.importReq] = "responded"
    /\ LET resp == response[ui.importReq] IN
       IF ~IsOk(resp)
       THEN ui' = [ui EXCEPT !.lastApiError = [action |-> "run-import", status |-> resp.status],
                             !.message = "Import mislukt.",
                             !.loadingImport = FALSE, !.importReq = 0]
       ELSE ui' = [ui EXCEPT !.importResult = resp,
                             !.message = IF Truthy(body[ui.importReq].dryRun) THEN "Dry-run afgerond."
                                         ELSE "Import afgerond.",
                             !.lastApiError = Null,
                             !.loadingImport = FALSE, !.importReq = 0]
    /\ NoPost
    /\ UNCHANGED <<env, calls, fin, fout>>

\* the fetch of runImport rejects: the backend closed the connection without
\* an answer
ImportNetworkError ==
    /\ ui.importReq # 0
    /\ pc[ui.importReq] = "unanswered"
    /\ ui' = [ui EXCEPT !.lastApiError = [action |-> "run-import", networkError |-> TRUE],
                        !.message = "Netwerkfout tijdens import",
                        !.loadingImport = FALSE, !.importReq = 0]
    /\ NoPost
    /\ UNCHANGED <<env, calls, fin, fout>>

\* another client posts an import without the dryRun member
ApiImport ==
    /\ \E am \in {[k \in {} |-> Acc1], (AllKey :> Acc1)} :
        Post("import", WithConfig(Body(<< Row(<<"b">>, ADate, <<"5">>) >>, Undefined, am), Str(AUrl)))
    /\ UNCHANGED <<env, calls, fin, fout, ui>>

\* a step of the backend on one of its requests
Backend ==
    /\ \E r \in DOMAIN body :
        \/ Import(r)
        \/ FetchOk(r)
        \/ FetchNotOk(r)
        \/ FetchRejects(r)
        \/ Accounts(r)
        \/ ListOk(r)
        \/ ListNotOk(r)
        \/ ListRejects(r)

UiEnvs == [MOCK_ACTUAL : BOOLEAN, ACTUAL_SERVER_URL : {Undefined}]

InitUi ==
    /\ env \in UiEnvs
    /\ body = <<>>
    /\ route = <<>>
    /\ pc = <<>>
    /\ entries = <<>>
    /\ idx = <<>>
    /\ result = <<>>
    /\ response = <<>>
    /\ calls = <<>>
    /\ fin = <<>>
    /\ fout = <<>>
    /\ ui = UiInitial

NextUi ==
    \/ CsvLoaded
    \/ SetDryRun
    \/ SetActualConfig
    \/ SetAccountMapping
    \/ LoadAccounts
    \/ AccountsAnswered
    \/ RunImport
    \/ ImportAnswered
    \/ ImportNetworkError
    \/ ApiImport
    \/ Backend

SpecUi == InitUi /\ [][NextUi]_vars

-----------------------------------------------------------------------------
(* Claims about the front end *)

\* C22: dry-run is the safe default.  The UI starts with dry-run enabled,
\* its dryRun changes only by a step that does nothing but flip the checkbox,
\* and runImport sends the dryRun of the moment; in the backend an import
\* without the dryRun member issues no ledger call and answers dryRun=true,
\* and only an import that carries dryRun=false ever issues one.
C22_DryRunIsTheSafeDefault ==
    /\ ui.dryRun
    /\ [][/\ ui'.dryRun # ui.dryRun =>
                (ui' = [ui EXCEPT !.dryRun = ~ui.dryRun] /\ body' = body /\ calls' = calls)
          /\ (ui.importReq = 0 /\ ui'.importReq # 0) =>
                body'[ui'.importReq].dryRun = Bool(ui.dryRun)]_vars
    /\ [](\A r \in DOMAIN body :
            route[r] = "import" =>
                /\ "dryRun" \notin DOMAIN body[r] =>
                    /\ CallIdsOf(r) = {}
                    /\ response[r].status = 200 => response[r].dryRun = Bool(TRUE)
                /\ CallIdsOf(r) # {} =>
                    ("dryRun" \in DOMAIN body[r] /\ body[r].dryRun = Bool(FALSE)))

\* C22 witness: an import without the dryRun member, with a server URL and an
\* account for its group and with the mock off, was answered as a dry run.
C22_Witness ==
    \E r \in DOMAIN body :
        /\ route[r] = "import"
        /\ "dryRun" \notin DOMAIN body[r]
        /\ ~env.MOCK_ACTUAL
        /\ ~Blank(ServerUrlOf(body[r], env))
        /\ \A j \in 1..Len(entries[r]) : HasAccount(r, entries[r][j].key)
        /\ response[r].status = 200
        /\ response[r].dryRun = Bool(TRUE)
        /\ response[r].totalTransactions >= 1

-----------------------------------------------------------------------------
(* Imports with groups longer than the preview *)

MaxPreviewRows == 6

PreviewCandidateRows ==
    { Row(<<"b">>, ADate, <<"5">>),
      Row(<<"b">>, <<" ">>, <<"5">>),
      Row(<<"1">>, ADate, <<"7">>) }

PreviewRowLists == UNION {[1..n -> PreviewCandidateRows] : n \in 0..MaxPreviewRows}

PreviewRequests ==
    LET base == { Body(rows, g, FullAccounts) : rows \in PreviewRowLists, g \in {Undefined, Str(ColG)} }
    IN  base \cup { WithConfig(WithDryRun(b, FALSE), Str(AUrl)) : b \in base }

PreviewEnvs == [MOCK_ACTUAL : {FALSE}, ACTUAL_SERVER_URL : {Undefined}]

InitPreview == InitOf({1}, PreviewRequests, PreviewEnvs)

SpecPreview == InitPreview /\ [][Next]_vars

\* the rows of request r that fall under key, in row order
RowsUnder(r, key) ==
    LET IsUnder(i) == KeyOfRow(r, i) = key
    IN  SelectSeq([i \in 1..Len(body[r].rows) |-> i], IsUnder)

PreviewIsHeadOfGroup(r, g) ==
    LET ids == RowsUnder(r, g.group)
    IN  /\ g.transactionCount = Len(ids)
        /\ Len(g.preview) = Least(5, g.transactionCount)
        /\ \A p \in 1..Len(g.preview) : g.preview[p] = TransactionOf(r, ids[p])

\* C23: the preview of every group result, in the handler's result list and
\* in the summary it sends, dry run or live, is the first
\* min(5, transactionCount) transactions of the group in row order, the
\* invalid ones included.
C23_PreviewIsFirstFiveOfGroup ==
    \A r \in DOMAIN body :
        /\ \A j \in 1..Len(result[r]) : PreviewIsHeadOfGroup(r, result[r][j])
        /\ response[r].status = 200 =>
            \A j \in 1..Len(response[r].groups) : PreviewIsHeadOfGroup(r, response[r].groups[j])

\* C23 witness: a live import answered with its summary has a group of more
\* than five transactions whose preview holds five, an invalid one among
\* them.
C23_Witness ==
    \E r \in DOMAIN body :
        /\ AsksLive(r)
        /\ response[r].status = 200
        /\ CallIdsOf(r) # {}
        /\ \E j \in 1..Len(response[r].groups) :
            LET g == response[r].groups[j]
            IN  /\ g.transactionCount > 5
                /\ Len(g.preview) = 5
                /\ \E p \in 1..5 : ~IsValidTransaction(g.preview[p])

-----------------------------------------------------------------------------
(* Two import requests in flight together *)

TwoRowLists ==
    { << Row(<<"b">>, ADate, <<"5">>) >>,
      << Row(<<"b">>, ADate, <<"5">>), Row(<<"1">>, ADate, <<"7">>) >>,
      << Row(<<"1">>, ADate, <<"-">>), Row(<<"b">>, ADate, <<"5">>) >>,
      << Row(<<"c", "o", "n", "s", "t", "r", "u", "c", "t", "o", "r">>, ADate, <<"7">>) >> }

TwoRequests ==
    LET base == { Body(rows, Str(ColG), am) : rows \in TwoRowLists,
                                             am \in {FullAccounts, (<<"b">> :> Acc1)} }
    IN  base \cup { WithConfig(WithDryRun(b, FALSE), Str(AUrl)) : b \in base }

InitTwo == InitOf({1, 2}, TwoRequests, PreviewEnvs)

SpecTwo == InitTwo /\ [][Next]_vars

\* what request r owns: the position of its handler, its local data, its
\* answer and the calls it issued
Own(r) ==
    [pc |-> pc[r], entries |-> entries[r], idx |-> idx[r], result |-> result[r],
     response |-> response[r], calls |-> CallsOf(r)]

OwnAtStart ==
    [pc |-> "received", entries |-> <<>>, idx |-> 0, result |-> <<>>,
     response |-> NoResponse, calls |-> <<>>]

\* p after a synchronous stretch that ends as `run` says
AloneAfter(p, run, r) ==
    [p EXCEPT !.pc = run.pc, !.idx = run.idx, !.result = run.result, !.response = run.response,
              !.calls = IF run.call = <<>> THEN @
                        ELSE Append(@, [req |-> r, outcome |-> "pending"] @@ run.call[1])]

\* the steps of a handler that runs with no other request in the process
AloneNext(b, e, r, p) ==
    IF p.pc = "received"
    THEN IF "rows" \notin DOMAIN b \/ "mapping" \notin DOMAIN b
         THEN {[p EXCEPT !.pc = "responded", !.response = MissingInput]}
         ELSE LET grouped == groupRows(b.rows, Get(b, "groupByColumn")) IN
              IF grouped.threw
              THEN {[p EXCEPT !.pc = PcAfter(out), !.response = out] : out \in UncaughtOutcomes}
              ELSE {AloneAfter([p EXCEPT !.entries = ObjectEntries(grouped)],
                               RunLoop(b, e, ObjectEntries(grouped), 1, <<>>), r)}
    ELSE IF p.pc = "awaiting"
    THEN LET c == Len(p.calls) IN
            {AloneAfter([p EXCEPT !.calls[c].outcome = "ok"],
                        RunLoop(b, e, p.entries, p.idx + 1, p.result), r)}
            \cup {[p EXCEPT !.calls[c].outcome = "notok", !.pc = "responded",
                            !.response = ImportFailed(p.calls[c].group, detail, p.result)] :
                    detail \in Details}
            \cup {[p EXCEPT !.calls[c].outcome = "rejected", !.pc = PcAfter(out), !.response = out] :
                    out \in UncaughtOutcomes}
    ELSE {}

RECURSIVE AloneReach(_, _, _, _)
AloneReach(b, e, r, seen) ==
    LET more == seen \cup UNION {AloneNext(b, e, r, p) : p \in seen}
    IN  IF more = seen THEN seen ELSE AloneReach(b, e, r, more)

\* the handler of r has run its first stretch
Started(r) == entries[r] # <<>> \/ response[r] # NoResponse \/ pc[r] = "responded"

\* C24: import requests are isolated.  Whatever the interleaving, what a
\* request under way owns (handler position, groups, result list, answer,
\* and the sequence of its ledger calls with their outcomes) is a state the
\* same request reaches when it runs alone.
C24_RequestsAreIsolated ==
    \A r \in DOMAIN body :
        Started(r) => Own(r) \in AloneReach(body[r], env, r, {OwnAtStart})

-----------------------------------------------------------------------------
(* Further claims about the configuration of the Actual connection *)

\* the path an ACTUAL_..._ENDPOINT variable asks for
PathAskedFor(variable, default) ==
    IF Get(env, variable) = Undefined THEN default ELSE env[variable].s

\* C25: the paths called on the Actual server are configurable: the account
\* listing goes to the path in ACTUAL_ACCOUNTS_ENDPOINT and the transaction
\* import to the path in ACTUAL_IMPORT_ENDPOINT, and to /api/accounts and
\* /api/import-transactions only when the variable is unset.
C25_EndpointPathsAreConfigurable ==
    \A c \in 1..Len(calls) :
        LET r == calls[c].req IN
            /\ route[r] = "import" =>
                calls[c].url = StripSlash(ServerUrlOf(body[r], env))
                                    \o PathAskedFor("ACTUAL_IMPORT_ENDPOINT", ImportPath)
            /\ route[r] = "accounts" =>
                calls[c].url = StripSlash(ListServerUrlOf(body[r], env))
                                    \o PathAskedFor("ACTUAL_ACCOUNTS_ENDPOINT", AccountsPath)

\* the connection form of request r: actualConfig of an import, the body
\* itself of the two list requests
FormOf(r) == IF route[r] = "import" THEN Get(body[r], "actualConfig") ELSE body[r]

\* the request's value when it is non-blank, the environment's otherwise
RequestThenEnv(r, field, variable) ==
    LET mine == Get(FormOf(r), field)
        theirs == Get(env, variable)
    IN  IF mine.t = "string" /\ ~Blank(mine.s) THEN mine.s
        ELSE IF theirs.t = "string" THEN theirs.s
        ELSE <<>>

\* C26: server URL, password and budget id fall back from the request to
\* the environment: every call goes to the request's URL with the request's
\* password and budget id where these are non-blank and with the
\* environment's otherwise, and a live import ends with the missing-server-URL
\* error only when neither supplies a non-blank URL.
C26_ConnectionFallsBackToEnvironment ==
    /\ \A c \in 1..Len(calls) :
        LET r == calls[c].req IN
            /\ calls[c].password = RequestThenEnv(r, "password", "ACTUAL_PASSWORD")
            /\ "budgetId" \in DOMAIN calls[c] =>
                    calls[c].budgetId = RequestThenEnv(r, "budgetId", "ACTUAL_BUDGET_ID")
            /\ route[r] = "import" =>
                    calls[c].serverUrl = Trim(RequestThenEnv(r, "serverUrl", "ACTUAL_SERVER_URL"))
    /\ \A r \in DOMAIN body :
        (route[r] = "import" /\ response[r] = MissingServerUrl) =>
            Blank(RequestThenEnv(r, "serverUrl", "ACTUAL_SERVER_URL"))

-----------------------------------------------------------------------------
(* The group keys of the UI against the groups of the backend *)

InitGroupKeys ==
    /\ NoRequests
    /\ fin \in [fn : {"groupKeys"}, rows : GroupingRowLists, groupByColumn : GroupByColumns]
    /\ fout = [done |-> FALSE]

\* const groups = useMemo(() => groupKeys(rows, groupByColumn), ...)
UiGroupKeys ==
    /\ fin.fn = "groupKeys"
    /\ "keys" \notin DOMAIN fout
    /\ fout' = [done |-> FALSE, keys |-> groupKeys(fin.rows, fin.groupByColumn)]
    /\ UNCHANGED <<env, body, pc, entries, idx, result, response, calls, fin, ui, route>>

\* const grouped = groupRows(rows, groupByColumn) on the rows and column the UI sent
BackendGroupRows ==
    /\ fin.fn = "groupKeys"
    /\ "keys" \in DOMAIN fout
    /\ ~fout.done
    /\ fout' = [done |-> TRUE, keys |-> fout.keys, grouped |-> groupRows(fin.rows, fin.groupByColumn)]
    /\ UNCHANGED <<env, body, pc, entries, idx, result, response, calls, fin, ui, route>>

NextGroupKeys == UiGroupKeys \/ BackendGroupRows

SpecGroupKeys == InitGroupKeys /\ [][NextGroupKeys]_vars

\* C27: the group keys the UI offers for account mapping are exactly the
\* keys of the groups the backend forms of the same rows and grouping
\* column: the backend forms its groups, and the two key sets are equal.
C27_UiKeysAreBackendKeys ==
    fout.done =>
        /\ ~fout.grouped.threw
        /\ {fout.keys[i] : i \in 1..Len(fout.keys)} = DOMAIN fout.grouped.of

-----------------------------------------------------------------------------
(* The mapped preview of the UI against mapRows of the backend *)

\* (row[column] ?? '').toString().trim() on a cell of the parsed CSV
PreviewCell(value) ==
    IF value.t \in {"undefined", "null"} THEN <<>> ELSE Trim(value.s)

\* the value applyMapping stores in mapped[field.key] for a rule
PreviewValue(row, rule) ==
    IF "type" \in DOMAIN rule /\ rule.type = "merge"
    THEN LET columns == IF "columns" \in DOMAIN rule THEN rule.columns ELSE <<>>
             values == [i \in 1..Len(columns) |-> PreviewCell(Get(row, columns[i]))]
         IN  Join(SelectSeq(values, NonEmpty), Separator(rule))
    ELSE PreviewCell(Get(row, IF "column" \in DOMAIN rule THEN rule.column ELSE UndefinedName))

\* one row of applyMapping: the loop runs over TARGET_FIELDS, and a field
\* whose rule is missing or null is ''
applyMapping(row, mapping) ==
    [field \in {TARGET_FIELDS[i] : i \in 1..Len(TARGET_FIELDS)} |->
        IF field \notin DOMAIN mapping \/ mapping[field] = Null
        THEN Str(<<>>)
        ELSE Str(PreviewValue(row, mapping[field]))]

InitMapPreview ==
    /\ NoRequests
    /\ fin \in [fn : {"applyMapping"}, row : MappingRows,
                mapping : {MappingOf(c) : c \in RuleChoices}]
    /\ fout = [done |-> FALSE]

\* const mappedPreview = useMemo(() => applyMapping(rows.slice(0, 10), mapping), ...)
UiApplyMapping ==
    /\ fin.fn = "applyMapping"
    /\ "preview" \notin DOMAIN fout
    /\ fout' = [done |-> FALSE, preview |-> applyMapping(fin.row, fin.mapping)]
    /\ UNCHANGED <<env, body, pc, entries, idx, result, response, calls, fin, ui, route>>

\* const mappedRows = mapRows(rows, mapping) on the row and mapping the UI sent
BackendMapRows ==
    /\ fin.fn = "applyMapping"
    /\ "preview" \in DOMAIN fout
    /\ ~fout.done
    /\ fout' = [done |-> TRUE, preview |-> fout.preview,
                mapped |-> mapRows(<<fin.row>>, fin.mapping)[1]]
    /\ UNCHANGED <<env, body, pc, entries, idx, result, response, calls, fin, ui, route>>

NextMapPreview == UiApplyMapping \/ BackendMapRows

SpecMapPreview == InitMapPreview /\ [][NextMapPreview]_vars

\* C28: for every row and every mapping configuration, the date, amount,
\* payee and notes of the UI's mapped preview are the values the backend's
\* mapRows computes for the same row and mapping.
C28_PreviewIsWhatIsImported ==
    fout.done =>
        \A field \in TargetFields : Get(fout.mapped, field) = fout.preview[field]

-----------------------------------------------------------------------------
(* loadBudgets of the UI against /api/actual/budgets *)

\* loadBudgets up to its await; the button is disabled while loadingBudgets.
\* The callback keeps the actualConfig of the render it was created in.
LoadBudgets ==
    /\ ~ui.loadingBudgets
    /\ IF Trim(ui.actualConfig.serverUrl.s) = <<>>
       THEN ui' = [ui EXCEPT !.message = "ACTUAL_SERVER_URL ontbreekt."] /\ NoPost
       ELSE IF ui.actualConfig.password.s = <<>>
       THEN ui' = [ui EXCEPT !.message = "ACTUAL_PASSWORD ontbreekt."] /\ NoPost
       ELSE /\ Post("budgets", ui.actualConfig)
            /\ ui' = [ui EXCEPT !.loadingBudgets = TRUE,
                                !.message = "Budget IDs ophalen van Actual server...",
                                !.lastApiError = Null,
                                !.budgetsReq = Len(body) + 1,
                                !.closure = ui.actualConfig]
    /\ ui' # ui
    /\ UNCHANGED <<env, calls, fin, fout>>

\* loadBudgets from the answer on: `actualConfig` is the one of the callback's
\* render, `prev` of the functional update is the state of now
BudgetsAnswered ==
    /\ ui.budgetsReq # 0
    /\ pc[ui.budgetsReq] = "responded"
    /\ LET resp == response[ui.budgetsReq]
           actualConfig == ui.closure
       IN
       IF ~IsOk(resp)
       THEN ui' = [ui EXCEPT !.lastApiError = [action |-> "load-budgets", status |-> resp.status],
                             !.message = "Budget IDs ophalen mislukt.",
                             !.loadingBudgets = FALSE, !.budgetsReq = 0, !.closure = Null]
       ELSE LET nextBudgets == resp.budgets IN
            IF ~Truthy(actualConfig.budgetId) /\ Len(nextBudgets) = 1
            THEN ui' = [ui EXCEPT !.budgets = nextBudgets,
                                  !.actualConfig.budgetId = Str(nextBudgets[1].id),
                                  !.message = "1 budget ID geladen en automatisch geselecteerd",
                                  !.loadingBudgets = FALSE, !.budgetsReq = 0, !.closure = Null]
            ELSE IF Len(nextBudgets) = 0
            THEN ui' = [ui EXCEPT !.budgets = nextBudgets,
                                  !.lastApiError = [action |-> "load-budgets", status |-> resp.status,
                                                    reason |-> "No budgets returned"],
                                  !.message = "Geen budget IDs ontvangen van de API.",
                                  !.loadingBudgets = FALSE, !.budgetsReq = 0, !.closure = Null]
            ELSE ui' = [ui EXCEPT !.budgets = nextBudgets,
                                  !.message = "Budget IDs geladen",
                                  !.lastApiError = Null,
                                  !.loadingBudgets = FALSE, !.budgetsReq = 0, !.closure = Null]
    /\ NoPost
    /\ UNCHANGED <<env, calls, fin, fout>>

\* a step of the backend on one of the budget requests
BudgetsBackend ==
    /\ \E r \in DOMAIN body :
        \/ Budgets(r)
        \/ ListOk(r)
        \/ ListNotOk(r)
        \/ ListRejects(r)

NextBudgets ==
    \/ SetActualConfig
    \/ LoadBudgets
    \/ BudgetsAnswered
    \/ BudgetsBackend

SpecBudgets == InitUi /\ [][NextBudgets]_vars

\* C29: a step of loadBudgets changes the budget id only when the answer
\* lists exactly one budget and no budget id is set at that moment, and
\* then to that budget's id: it never replaces an id the user has entered;
\* when the answer lists no budget it records an error and leaves the
\* budget id as it is.
C29_LoadBudgetsKeepsAnEnteredBudget ==
    [][ui'.budgetsReq # ui.budgetsReq =>
            /\ ui'.actualConfig.budgetId # ui.actualConfig.budgetId =>
                /\ IsOk(response[ui.budgetsReq])
                /\ Len(response[ui.budgetsReq].budgets) = 1
                /\ ui.actualConfig.budgetId = Str(<<>>)
                /\ ui'.actualConfig.budgetId = Str(response[ui.budgetsReq].budgets[1].id)
            /\ (/\ ui.budgetsReq # 0
                /\ IsOk(response[ui.budgetsReq])
                /\ Len(response[ui.budgetsReq].budgets) = 0) =>
                    /\ ui'.lastApiError # Null
                    /\ ui'.actualConfig.budgetId = ui.actualConfig.budgetId]_vars

====
